---- MODULE Spec2Model ----
(***************************************************************************)
(* A model of the autonomous TODO-resolution session of                    *)
(* GitHub_Copilot_TODOMCP: AutoContinueService (startSession,              *)
(* runAutonomousLoop, processTodo, executeAction, createBackup,            *)
(* restoreBackup, stopSession, timeoutSession), SessionStorage,            *)
(* SafePatternMatcher and the part of ErrorContextService they use.        *)
(*                                                                         *)
(* Confidences and thresholds are the source's values times 100.           *)
(* Every await of the source is a point where the other asynchronous       *)
(* activities (stopSession, the session timer, an executeAction whose      *)
(* withTimeout already rejected) may run; each action below is the code    *)
(* between two awaits.                                                     *)
(***************************************************************************)
EXTENDS Integers, Sequences, FiniteSets, TLC

(* ------------------------------ bounds -------------------------------- *)
\* largest configured maxActionsPerSession explored when no stop request and
\* no timeout occurs
MaxActionsBound == 3
\* largest configured maxActionsPerSession explored together with stop
\* requests, the session timer and operation timeouts
MaxActionsRaced == 1
\* most TODOs one scan returns
MaxTodos == 2
\* most executeAction calls abandoned by withTimeout in one session
MaxOrphans == 1

(* ------------------------- program constants -------------------------- *)
\* const maxRetries = 3 in runAutonomousLoop
maxRetries == 3

\* SAFE_PATTERNS, in declaration order.  actionType "undefined" is what
\* ActionType.REMOVE_UNUSED_IMPORTS / REMOVE_UNUSED_VARIABLES evaluate to:
\* the enum has no such members.
SAFE_PATTERNS ==
  << [id |-> "add-comment",             confidence |-> 90, actionType |-> "add_comment"],
     [id |-> "fix-formatting",          confidence |-> 85, actionType |-> "fix_formatting"],
     [id |-> "update-documentation",    confidence |-> 80, actionType |-> "update_documentation"],
     [id |-> "rename-variable",         confidence |-> 90, actionType |-> "rename_variable"],
     [id |-> "implement-function",      confidence |-> 80, actionType |-> "implement_function"],
     [id |-> "add-import",              confidence |-> 70, actionType |-> "add_import"],
     [id |-> "remove-unused-imports",   confidence |-> 85, actionType |-> "undefined"],
     [id |-> "remove-unused-variables", confidence |-> 80, actionType |-> "undefined"] >>

\* the default of config.patterns.enabled
DefaultEnabled == {"add-comment", "fix-formatting", "update-documentation", "add-import"}

(* ------------------------------ inputs -------------------------------- *)
\* Target files of the workspace; both have the base name "a.ts".
Files == {"src/a.ts", "lib/a.ts"}

\* path.basename(filePath)
basename(f) == "a.ts"

\* A TODO's text is represented by the set of pattern ids whose regex
\* matches it; these are the texts the scanner may return.
TodoContents ==
  { {},
    {"add-comment"},
    {"fix-formatting"},
    {"update-documentation"},
    {"implement-function"},
    {"rename-variable"},
    {"add-comment", "rename-variable"} }

TodoItems == [filePath : Files, content : TodoContents]

\* The constructor's config argument: the defaults, or a stricter threshold
\* without backups and git and with rename-variable enabled; each with
\* every cap up to maxCap.
Configs(maxCap) ==
  [ maxActionsPerSession : 1..maxCap,
    safetyThreshold      : {70},
    enableBackups        : {TRUE},
    enableGitIntegration : {TRUE},
    enabled              : {DefaultEnabled} ]
  \cup
  [ maxActionsPerSession : 1..maxCap,
    safetyThreshold      : {85},
    enableBackups        : {FALSE},
    enableGitIntegration : {FALSE},
    enabled              : {DefaultEnabled \cup {"rename-variable"}} ]

(* --------------------------- pure functions --------------------------- *)
\* SafePatternMatcher.analyzePattern: one match per pattern whose regex
\* matches, in declaration order, carrying the pattern's own confidence.
analyzePattern(content) ==
  SelectSeq(SAFE_PATTERNS, LAMBDA p : p.id \in content)

RECURSIVE reduceBest(_, _, _)
reduceBest(matches, i, best) ==
  IF i > Len(matches) THEN best
  ELSE reduceBest(matches, i + 1,
                  IF matches[i].confidence > best.confidence THEN matches[i] ELSE best)

NoMatch == [id |-> "", confidence |-> -1, actionType |-> ""]

\* AutoContinueService.selectBestMatch: null for no match, else
\* matches.reduce((best, current) => current.confidence > best.confidence ? current : best)
selectBestMatch(matches) ==
  IF Len(matches) = 0 THEN NoMatch ELSE reduceBest(matches, 2, matches[1])

(* ------------------------------- state -------------------------------- *)
VARIABLES
  config,              \* this.config of the service
  pc,                  \* where startSession / runAutonomousLoop stands
  session,             \* the loop's local `session` object
  stored,              \* the persisted session record (<id>.json)
  snap,                \* the record read by addAction / completeSession
  actionsExecuted,     \* runAutonomousLoop's counter
  consecutiveFailures, \* runAutonomousLoop's counter
  actionTaken,         \* the iteration's flag
  todoIndex,           \* TODOs of the current scan already taken
  todo,                \* the TodoItem being processed
  cur,                 \* the Action processTodo returned
  execs,               \* executeAction calls in flight
  files,               \* content of each target file
  backups,             \* the files of .mcp-backups
  recorded,            \* the ErrorContexts the last step appended to the error log
  timer,               \* the setTimeout handle of the session
  activeEntry,         \* activeSessions.has(session.id)
  stops,               \* the stopSession calls
  thrown,              \* the executeAction call the last step rejected, if any
  call                 \* the call of an analyzer, matcher or tool method made on its own

vars == << config, pc, session, stored, snap, actionsExecuted, consecutiveFailures,
           actionTaken, todoIndex, todo, cur, execs, files, backups, recorded,
           timer, activeEntry, stops, thrown, call >>

NoSession == [status |-> "none", actions |-> << >>, totalActions |-> 0,
              autoApproveThreshold |-> 0]

NoAction == [id |-> 0, type |-> "", status |-> "none", filePath |-> "",
             patternId |-> "", confidence |-> -1, requiresApproval |-> FALSE]

NoTodo == [filePath |-> "", content |-> {}]

NoThrow == [id |-> 0, filePath |-> "", pre |-> 0, post |-> 0]

StopCallers == {"external", "timer"}

\* no analyzer, matcher or tool method has been called on its own
NoCall == [fn |-> "", args |-> << >>, result |-> << >>]

NoStop == [pc |-> "idle", snap |-> NoSession, cancelled |-> FALSE]

\* createSession keeping its own default autoApproveThreshold of 0.8
createSessionMutant(autoApproveThreshold) ==
  [status |-> "active", actions |-> << >>, totalActions |-> 0,
   autoApproveThreshold |-> 80]

\* SessionStorage.createSession: status active, no actions, metrics.totalActions 0,
\* config.autoApproveThreshold as passed in.
createSession(autoApproveThreshold) ==
  [status |-> "active", actions |-> << >>, totalActions |-> 0,
   autoApproveThreshold |-> autoApproveThreshold]

\* An ErrorContext, reduced to its type, the context fields the loop sets
\* and the error it was made from: the class of the caught error whose
\* message it carries, "" when the message was composed at the call.
ErrorContext(errorType, operation, attemptNumber, confidence, safetyThreshold, patternId) ==
  [errorType |-> errorType, operation |-> operation, attemptNumber |-> attemptNumber,
   confidence |-> confidence, safetyThreshold |-> safetyThreshold, patternId |-> patternId,
   error |-> ""]

\* the ErrorContext of a recordError call that is passed a caught error
ofError(ctx, error) == [ctx EXCEPT !.error = error]

\* what a withTimeout-wrapped collaborator call rejects with: the
\* TimeoutError of withTimeout, or the plain Error of the collaborator
rejection(timedOut) == IF timedOut THEN "TimeoutError" ELSE "Error"

\* ErrorContextService.recordError applied to each element of `recs` in turn:
\* they are appended to the session's error log, which nothing reads back
\* before the session ends
recordError(recs) == recorded' = recs

\* a step that records no error
Quiet == recorded' = << >>

\* a step in which no executeAction call is rejected
NoneThrown == thrown' = NoThrow

\* ErrorContextService.recordSafetyRejection
recordSafetyRejection(confidence, safetyThreshold, patternId) ==
  ErrorContext("SAFETY", "safety_check", -1, confidence, safetyThreshold, patternId)

\* ErrorContextService.recordPatternMatchFailure
recordPatternMatchFailure ==
  ErrorContext("PATTERN_MATCH", "pattern_matching", -1, -1, -1, "")

\* the state after the constructor, for a config argument among cfgs
Constructed(cfgs) ==
  /\ config \in cfgs
  /\ pc = "idle"
  /\ session = NoSession
  /\ stored = NoSession
  /\ snap = NoSession
  /\ actionsExecuted = 0
  /\ consecutiveFailures = 0
  /\ actionTaken = FALSE
  /\ todoIndex = 0
  /\ todo = NoTodo
  /\ cur = NoAction
  /\ execs = {}
  /\ files = [f \in Files |-> IF f = "src/a.ts" THEN 1 ELSE 2]
  /\ backups = {}
  /\ recorded = << >>
  /\ timer = "unset"
  /\ activeEntry = FALSE
  /\ stops = [c \in StopCallers |-> NoStop]
  /\ thrown = NoThrow
  /\ call = NoCall

Init == Constructed(Configs(MaxActionsRaced))

InitSeq == Constructed(Configs(MaxActionsBound))

(* --------------------------- startSession ----------------------------- *)
\* the catch of startSession: the error, an Error object, is recorded as
\* FATAL and the result { success: false } is returned
startupError(error) ==
  ofError(ErrorContext("FATAL", "session_startup", -1, -1, -1, ""), error)

\* createSession rejected (the session file could not be written):
\* startSession returns from its catch, no session and no timer exist
StartFail ==
  /\ pc = "idle"
  /\ pc' = "startFailed"
  /\ recordError(<< startupError("Error") >>)
  /\ UNCHANGED << call, config, session, stored, snap, actionsExecuted,
                  consecutiveFailures, actionTaken, todoIndex, todo, cur,
                  execs, files, backups, timer, activeEntry, stops >>
  /\ NoneThrown

\* startSession up to the first await of runAutonomousLoop: the session is
\* created with autoApproveThreshold = config.safetyThreshold, the timer is
\* armed, and the loop calls replayService.startRecording before its try.
StartSession ==
  /\ pc = "idle"
  /\ stored' = createSession(config.safetyThreshold)
  /\ session' = stored'
  /\ timer' = "armed"
  /\ activeEntry' = TRUE
  /\ pc' = "recording"
  /\ UNCHANGED << call, config, snap, actionsExecuted, consecutiveFailures,
                  actionTaken, todoIndex, todo, cur, execs, files, backups,
                  stops >>
  /\ Quiet
  /\ NoneThrown

(* ------------------------- runAutonomousLoop -------------------------- *)
\* startRecording returned: the loop enters its try block
RecordingOk ==
  /\ pc = "recording"
  /\ pc' = "loop"
  /\ UNCHANGED << call, config, session, stored, snap, actionsExecuted,
                  consecutiveFailures, actionTaken, todoIndex, todo, cur,
                  execs, files, backups, timer, activeEntry, stops >>
  /\ Quiet
  /\ NoneThrown

\* startRecording rejected (the replay file could not be written): the call
\* stands before the try of runAutonomousLoop, so neither catch of the loop
\* runs and the error reaches the catch of startSession
RecordingFail ==
  /\ pc = "recording"
  /\ pc' = "startFailed"
  /\ recordError(<< startupError("Error") >>)
  /\ UNCHANGED << call, config, session, stored, snap, actionsExecuted,
                  consecutiveFailures, actionTaken, todoIndex, todo, cur,
                  execs, files, backups, timer, activeEntry, stops >>
  /\ NoneThrown

\* AutoContinueService.shouldContinueSession
shouldContinueSession(s) ==
  s.status = "active" /\ s.totalActions < config.maxActionsPerSession

\* the condition of the while loop
WhileCondition ==
  /\ session.status = "active"
  /\ actionsExecuted < config.maxActionsPerSession
  /\ consecutiveFailures < maxRetries

\* the guard with > for >=
CapReachedMutant == actionsExecuted > config.maxActionsPerSession

\* the guard at the head of `for (const todo of todos)`
CapReached == actionsExecuted >= config.maxActionsPerSession

\* clearTimeout(handle); activeSessions.delete(id), when the map has the handle
ClearTimer ==
  /\ timer' = IF activeEntry /\ timer = "armed" THEN "cleared" ELSE timer
  /\ activeEntry' = FALSE

\* the end of the loop without the call of completeSession
FinalizeMutant ==
  /\ ClearTimer
  /\ pc' = "finalRead"

\* After the while loop: the timer is cleared, and completeSession is called
\* when the loop's own copy of the session still says active.
Finalize ==
  /\ ClearTimer
  /\ pc' = IF session.status = "active" THEN "completeRead" ELSE "finalRead"

\* the head of the while loop, up to the call of listTodos
LoopHead ==
  /\ pc = "loop"
  /\ IF WhileCondition /\ shouldContinueSession(session)
       THEN pc' = "listing" /\ UNCHANGED << timer, activeEntry >>
       ELSE Finalize
  /\ UNCHANGED << call, config, session, stored, snap, actionsExecuted,
                  consecutiveFailures, actionTaken, todoIndex, todo, cur,
                  execs, files, backups, stops >>
  /\ Quiet
  /\ NoneThrown

\* listTodos returned no TODO: break
ListEmpty ==
  /\ pc = "listing"
  /\ Finalize
  /\ UNCHANGED << call, config, session, stored, snap, actionsExecuted,
                  consecutiveFailures, actionTaken, todoIndex, todo, cur,
                  execs, files, backups, stops >>
  /\ Quiet
  /\ NoneThrown

\* listTodos returned at least one TODO
ListSome ==
  /\ pc = "listing"
  /\ consecutiveFailures' = 0
  /\ actionTaken' = FALSE
  /\ todoIndex' = 0
  /\ pc' = "todos"
  /\ UNCHANGED << call, config, session, stored, snap, actionsExecuted, todo, cur,
                  execs, files, backups, timer, activeEntry, stops >>
  /\ Quiet
  /\ NoneThrown

\* the escalation test with > for >=
RetriesExhaustedMutant(failures) == failures > maxRetries

\* consecutiveFailures >= maxRetries in the catch of an iteration
RetriesExhausted(failures) == failures >= maxRetries

\* listTodos threw or timed out: the catch of the iteration.  At the cap a
\* FATAL error is recorded and a FatalError thrown to the outer catch, else
\* the loop sleeps 5 s and goes on to refresh the session.
ListFail(timedOut) ==
  /\ pc = "listing"
  /\ consecutiveFailures' = consecutiveFailures + 1
  /\ IF RetriesExhausted(consecutiveFailures')
       THEN /\ recordError(<< ofError(ErrorContext("RECOVERABLE", "autonomous_iteration",
                                                   consecutiveFailures', -1, -1, ""),
                                      rejection(timedOut)),
                              ErrorContext("FATAL", "max_retries_exceeded",
                                           consecutiveFailures', -1, -1, "") >>)
            /\ pc' = "failWrite"
       ELSE /\ recordError(<< ofError(ErrorContext("RECOVERABLE", "autonomous_iteration",
                                                   consecutiveFailures', -1, -1, ""),
                                      rejection(timedOut)) >>)
            /\ pc' = "refresh"
  /\ UNCHANGED << call, config, session, stored, snap, actionsExecuted, actionTaken,
                  todoIndex, todo, cur, execs, files, backups, timer,
                  activeEntry, stops >>
  /\ NoneThrown

\* the outer catch: session.status = FAILED; updateSession(session)
FailWrite ==
  /\ pc = "failWrite"
  /\ session' = [session EXCEPT !.status = "failed"]
  /\ stored' = session'
  /\ pc' = "failClear"
  /\ UNCHANGED << call, config, snap, actionsExecuted, consecutiveFailures,
                  actionTaken, todoIndex, todo, cur, execs, files, backups,
                  timer, activeEntry, stops >>
  /\ Quiet
  /\ NoneThrown

\* the outer catch with its FatalError escaping the catch of startSession
FailClearMutant ==
  /\ pc = "failClear"
  /\ ClearTimer
  /\ pc' = "threw"
  /\ UNCHANGED << call, config, session, stored, snap, actionsExecuted,
                  consecutiveFailures, actionTaken, todoIndex, todo, cur,
                  execs, files, backups, stops >>
  /\ Quiet
  /\ NoneThrown

\* the outer catch, after its awaits: the timer is cleared and the
\* FatalError goes to the catch of startSession, which records it and
\* returns success: false
FailClear ==
  /\ pc = "failClear"
  /\ ClearTimer
  /\ pc' = "failed"
  /\ recordError(<< startupError("FatalError") >>)
  /\ UNCHANGED << call, config, session, stored, snap, actionsExecuted,
                  consecutiveFailures, actionTaken, todoIndex, todo, cur,
                  execs, files, backups, stops >>
  /\ NoneThrown

\* The result startSession returns once it has returned: from its try after
\* the loop (pc "done"), or from its catch.  The message leaves out the count
\* of non-fatal errors the loop appends to it.
startSessionResult ==
  IF pc = "done"
    THEN [success |-> TRUE, actionsExecuted |-> actionsExecuted,
          message |-> IF actionsExecuted > 0
                        THEN "Completed autonomous actions successfully"
                        ELSE "No actionable TODOs found",
          status |-> session.status]
    ELSE [success |-> FALSE, actionsExecuted |-> 0,
          message |-> "Failed to start session", status |-> "none"]

\* startSession has returned
Returned == pc \in {"done", "failed", "startFailed"}

\* the for loop takes the next TODO of the scan and processTodo starts
\* reading its file context
ForNext(t) ==
  /\ pc = "todos"
  /\ todoIndex < MaxTodos
  /\ ~CapReached
  /\ todo' = t
  /\ todoIndex' = todoIndex + 1
  /\ pc' = "context"
  /\ UNCHANGED << call, config, session, stored, snap, actionsExecuted,
                  consecutiveFailures, actionTaken, cur, execs, files, backups,
                  timer, activeEntry, stops >>
  /\ Quiet
  /\ NoneThrown

\* the end of the for loop without the break on !actionTaken
ForEndMutant ==
  /\ pc = "todos"
  /\ todoIndex >= 1
  /\ pc' = "refresh"
  /\ UNCHANGED << call, config, session, stored, snap, actionsExecuted,
                  consecutiveFailures, actionTaken, todoIndex, todo, cur,
                  execs, files, backups, timer, activeEntry, stops >>
  /\ Quiet
  /\ NoneThrown

\* the for loop ends (no TODO left, or the cap reached): break when no
\* action was taken, else refresh the session
ForEnd ==
  /\ pc = "todos"
  /\ todoIndex >= 1
  /\ IF actionTaken
       THEN pc' = "refresh" /\ UNCHANGED << timer, activeEntry >>
       ELSE Finalize
  /\ UNCHANGED << call, config, session, stored, snap, actionsExecuted,
                  consecutiveFailures, actionTaken, todoIndex, todo, cur,
                  execs, files, backups, stops >>
  /\ Quiet
  /\ NoneThrown

\* const updatedSession = await getSession(id); session = updatedSession
Refresh ==
  /\ pc = "refresh"
  /\ session' = stored
  /\ pc' = "loop"
  /\ UNCHANGED << call, config, stored, snap, actionsExecuted, consecutiveFailures,
                  actionTaken, todoIndex, todo, cur, execs, files, backups,
                  timer, activeEntry, stops >>
  /\ Quiet
  /\ NoneThrown

\* completeSession: const session = await getSession(id)
CompleteRead ==
  /\ pc = "completeRead"
  /\ snap' = stored
  /\ pc' = "completeWrite"
  /\ UNCHANGED << call, config, session, stored, actionsExecuted,
                  consecutiveFailures, actionTaken, todoIndex, todo, cur,
                  execs, files, backups, timer, activeEntry, stops >>
  /\ Quiet
  /\ NoneThrown

\* completeSession: session.status = COMPLETED; saveSession(session)
completeSession(s) == [s EXCEPT !.status = "completed"]

CompleteWrite ==
  /\ pc = "completeWrite"
  /\ stored' = completeSession(snap)
  /\ snap' = NoSession
  /\ pc' = "finalRead"
  /\ UNCHANGED << call, config, session, actionsExecuted, consecutiveFailures,
                  actionTaken, todoIndex, todo, cur, execs, files, backups,
                  timer, activeEntry, stops >>
  /\ Quiet
  /\ NoneThrown

\* const finalSession = await getSession(id); the loop returns its result
FinalRead ==
  /\ pc = "finalRead"
  /\ session' = stored
  /\ pc' = "done"
  /\ UNCHANGED << call, config, stored, snap, actionsExecuted, consecutiveFailures,
                  actionTaken, todoIndex, todo, cur, execs, files, backups,
                  timer, activeEntry, stops >>
  /\ Quiet
  /\ NoneThrown

(* ----------------------------- processTodo ---------------------------- *)
\* the errorType processTodo's catch records for an error that is neither a
\* RecoverableError nor a ValidationError
todoErrorType(timedOut) == IF timedOut THEN "TIMEOUT" ELSE "FATAL"

\* the rejection handled by the catch of the iteration instead of the catch
\* around processTodo
ContextFailMutant(timedOut) ==
  /\ pc = "context"
  /\ consecutiveFailures' = consecutiveFailures + 1
  /\ recordError(<< ofError(ErrorContext("RECOVERABLE", "autonomous_iteration",
                                         consecutiveFailures', -1, -1, ""),
                            rejection(timedOut)) >>)
  /\ pc' = "refresh"
  /\ todo' = NoTodo
  /\ UNCHANGED << call, config, session, stored, snap, actionsExecuted, actionTaken,
                  todoIndex, cur, execs, files, backups, timer, activeEntry,
                  stops >>
  /\ NoneThrown

\* readFileContext threw (a plain Error) or its withTimeout rejected:
\* processTodo's catch records the error and rethrows; the loop's catch
\* sees no FatalError and continues with the next TODO
ContextFail(timedOut) ==
  /\ pc = "context"
  /\ recordError(<< ofError(ErrorContext(todoErrorType(timedOut), "todo_processing",
                                         -1, -1, -1, ""),
                            rejection(timedOut)) >>)
  /\ pc' = "todos"
  /\ todo' = NoTodo
  /\ UNCHANGED << call, config, session, stored, snap, actionsExecuted,
                  consecutiveFailures, actionTaken, todoIndex, cur, execs,
                  files, backups, timer, activeEntry, stops >>
  /\ NoneThrown

\* the decision with the enabled-list test ahead of the threshold test
GateDecisionMutant(matches) ==
  LET bestMatch == selectBestMatch(matches) IN
  IF bestMatch = NoMatch THEN "no_match"
  ELSE IF bestMatch.id \notin config.enabled THEN "disabled"
  ELSE IF bestMatch.confidence < config.safetyThreshold THEN "below_threshold"
  ELSE "action"

\* The decision of processTodo on the matches of a TODO, in the order of
\* its three early returns.
GateDecision(matches) ==
  LET bestMatch == selectBestMatch(matches) IN
  IF bestMatch = NoMatch THEN "no_match"
  ELSE IF bestMatch.confidence < config.safetyThreshold THEN "below_threshold"
  ELSE IF bestMatch.id \notin config.enabled THEN "disabled"
  ELSE "action"

\* the approval test with > for >=
AutoApprovedMutant(confidence, s) == confidence > s.autoApproveThreshold

\* confidence >= session.config.autoApproveThreshold
AutoApproved(confidence, s) == confidence >= s.autoApproveThreshold

\* The ids of the Action objects still referenced somewhere.
UsedIds ==
  {stored.actions[i].id : i \in 1..Len(stored.actions)}
    \cup {session.actions[i].id : i \in 1..Len(session.actions)}
    \cup {snap.actions[i].id : i \in 1..Len(snap.actions)}
    \cup UNION {{stops[c].snap.actions[i].id : i \in 1..Len(stops[c].snap.actions)} :
                 c \in StopCallers}
    \cup {e.act.id : e \in execs}
    \cup {cur.id}

\* uuidv4(): an id no referenced Action has (the least such number)
freshId == CHOOSE i \in 1..(Cardinality(UsedIds) + 1) :
             i \notin UsedIds /\ \A j \in 1..(i - 1) : j \in UsedIds

\* the Action processTodo constructs
newAction(bestMatch, t) ==
  [id |-> freshId, type |-> bestMatch.actionType, status |-> "pending",
   filePath |-> t.filePath, patternId |-> bestMatch.id,
   confidence |-> bestMatch.confidence,
   requiresApproval |-> bestMatch.confidence < session.autoApproveThreshold]

\* the first statements of executeAction, up to its first await
beginExecute(action) ==
  [act |-> [action EXCEPT !.status = "executing"],
   phase |-> IF config.enableBackups THEN "backup" ELSE "edit",
   pre |-> files[action.filePath],
   fg |-> TRUE]

\* processTodo once readFileContext has returned: the pattern analysis and
\* the decision, to its return or to the first await of executeAction
Gate ==
  /\ pc = "context"
  /\ LET matches == analyzePattern(todo.content)
         bestMatch == selectBestMatch(matches)
         decision == GateDecision(matches)
         action == newAction(bestMatch, todo)
     IN
     CASE decision = "no_match" ->
            /\ recordError(<< recordPatternMatchFailure >>)
            /\ pc' = "todos"
            /\ UNCHANGED << cur, execs >>
       [] decision = "below_threshold" ->
            /\ recordError(<< recordSafetyRejection(bestMatch.confidence,
                                                    config.safetyThreshold, bestMatch.id) >>)
            /\ pc' = "todos"
            /\ UNCHANGED << cur, execs >>
       [] decision = "disabled" ->
            /\ recordError(<< ErrorContext("SAFETY", "pattern_check", -1, -1, -1,
                                           bestMatch.id) >>)
            /\ pc' = "todos"
            /\ UNCHANGED << cur, execs >>
       [] OTHER ->
            /\ Quiet
            /\ IF AutoApproved(bestMatch.confidence, session)
                 THEN /\ execs' = execs \cup {beginExecute(action)}
                      /\ cur' = NoAction
                      /\ pc' = "exec"
                 ELSE /\ cur' = [action EXCEPT !.status = "requires_approval"]
                      /\ pc' = "addRead"
                      /\ UNCHANGED execs
  /\ todo' = NoTodo
  /\ UNCHANGED << call, config, session, stored, snap, actionsExecuted,
                  consecutiveFailures, actionTaken, todoIndex, files, backups,
                  timer, activeEntry, stops >>
  /\ NoneThrown

\* addAction: const session = await getSession(sessionId)
AddRead ==
  /\ pc = "addRead"
  /\ snap' = stored
  /\ pc' = "addWrite"
  /\ UNCHANGED << call, config, session, stored, actionsExecuted,
                  consecutiveFailures, actionTaken, todoIndex, todo, cur,
                  execs, files, backups, timer, activeEntry, stops >>
  /\ Quiet
  /\ NoneThrown

\* addAction: session.actions.push(action); updateSession(session)
addAction(s, action) == [s EXCEPT !.actions = Append(@, action)]

\* addAction's write, then actionsExecuted++ and actionTaken = true; the
\* loop sleeps for the cooldown and returns to the for loop
AddWrite ==
  /\ pc = "addWrite"
  /\ stored' = addAction(snap, cur)
  /\ actionsExecuted' = actionsExecuted + 1
  /\ actionTaken' = TRUE
  /\ cur' = NoAction
  /\ snap' = NoSession
  /\ pc' = "todos"
  /\ UNCHANGED << call, config, session, consecutiveFailures, todoIndex, todo,
                  execs, files, backups, timer, activeEntry, stops >>
  /\ Quiet
  /\ NoneThrown

(* ---------------------------- executeAction --------------------------- *)
\* createBackup: copies the file to .mcp-backups/<basename>.<Date.now()>.bak
createBackup(bk, filePath, now) ==
  {b \in bk : ~(b.name = basename(filePath) /\ b.ts = now)}
    \cup {[name |-> basename(filePath), ts |-> now, content |-> files[filePath]]}

\* restoreBackup that copies nothing back
restoreBackupMutant(fs, bk, filePath) == [files |-> fs, backups |-> bk]

\* restoreBackup: of the backups named <basename>.*.bak the one that sorts
\* last is copied over the file and removed; no such backup, no change
restoreBackup(fs, bk, filePath) ==
  LET mine == {b \in bk : b.name = basename(filePath)} IN
  IF mine = {} THEN [files |-> fs, backups |-> bk]
  ELSE LET last == CHOOSE b \in mine : \A o \in mine : o.ts <= b.ts IN
       [files |-> [fs EXCEPT ![filePath] = last.content], backups |-> bk \ {last}]

\* the errorType executeAction's catch records, by the class of the error
actionErrorType(kind) ==
  IF kind = "ValidationError" THEN "VALIDATION"
  ELSE IF kind = "FileSystemError" THEN "FATAL"
  ELSE IF kind = "GitError" THEN "RECOVERABLE"
  ELSE "FATAL"

\* the action types executeAction's switch handles
SupportedTypes == {"add_comment", "fix_formatting", "update_documentation", "add_import"}

\* The catch of executeAction for an error of class `kind`, `before` being
\* what the try block recorded first: status failed, the error recorded,
\* the backup restored when backups are enabled, a RecoverableError thrown.
\* Awaited by processTodo, its catch records RECOVERABLE and returns null,
\* and the loop goes on with the next TODO.
Throw(e, kind, before) ==
  LET f == e.act.filePath
      restored == IF config.enableBackups
                    THEN restoreBackup(files, backups, f)
                    ELSE [files |-> files, backups |-> backups]
      own == << ofError(ErrorContext(actionErrorType(kind), "action_execution",
                                     -1, -1, -1, ""), kind) >>
  IN
  /\ files' = restored.files
  /\ backups' = restored.backups
  /\ execs' = execs \ {e}
  /\ thrown' = [id |-> e.act.id, filePath |-> f, pre |-> e.pre,
                post |-> restored.files[f]]
  /\ IF e.fg
       THEN /\ recordError(before \o own \o
                 << ofError(ErrorContext("RECOVERABLE", "todo_processing", -1, -1, -1, ""),
                            "RecoverableError") >>)
            /\ pc' = "todos"
       ELSE /\ recordError(before \o own)
            /\ UNCHANGED pc
  /\ UNCHANGED << call, config, session, stored, snap, actionsExecuted,
                  consecutiveFailures, actionTaken, todoIndex, todo, cur,
                  timer, activeEntry, stops >>

\* executeAction returns: nothing sets the status after "executing".
\* Awaited by processTodo, the action is returned to the loop.
Return(e) ==
  /\ execs' = execs \ {e}
  /\ IF e.fg
       THEN cur' = e.act /\ pc' = "addRead"
       ELSE UNCHANGED << cur, pc >>
  /\ UNCHANGED << call, config, session, stored, snap, actionsExecuted,
                  consecutiveFailures, actionTaken, todoIndex, todo, files,
                  backups, timer, activeEntry, stops >>
  /\ Quiet
  /\ NoneThrown

\* the execution moves on to its next await
Advance(e, phase) ==
  /\ execs' = (execs \ {e}) \cup {[e EXCEPT !.phase = phase]}
  /\ UNCHANGED << call, config, pc, session, stored, snap, actionsExecuted,
                  consecutiveFailures, actionTaken, todoIndex, todo, cur,
                  timer, activeEntry, stops >>
  /\ Quiet
  /\ NoneThrown

\* Date.now(): later than the time stamp of every backup already written
now == 1 + Cardinality(backups)

ExecBackupOk(e) ==
  /\ e.phase = "backup"
  /\ backups' = createBackup(backups, e.act.filePath, now)
  /\ Advance(e, "edit")
  /\ UNCHANGED << files >>

\* ensureDir or copy failed
ExecBackupFail(e) ==
  /\ e.phase = "backup"
  /\ Throw(e, "Error", << >>)

\* The contents some file, backup or running action still holds.
LiveContents ==
  {files[f] : f \in Files} \cup {b.content : b \in backups} \cup {e.pre : e \in execs}

\* the text an edit writes: a content that differs from every one held
\* (the least such number)
freshContent == CHOOSE n \in 1..(Cardinality(LiveContents) + 1) :
                  n \notin LiveContents /\ \A m \in 1..(n - 1) : m \in LiveContents

\* executeAddComment, executeAddImport, executeFixFormatting: the file is rewritten
ExecEditWrite(e) ==
  /\ e.phase = "edit"
  /\ e.act.type \in {"add_comment", "add_import", "fix_formatting"}
  /\ files' = [files EXCEPT ![e.act.filePath] = freshContent]
  /\ Advance(e, "validate")
  /\ UNCHANGED << backups >>

\* executeUpdateDocumentation, and executeFixFormatting with nothing to fix:
\* no write
ExecEditNoWrite(e) ==
  /\ e.phase = "edit"
  /\ e.act.type \in {"update_documentation", "fix_formatting"}
  /\ Advance(e, "validate")
  /\ UNCHANGED << files, backups >>

\* readFile or writeFile failed before anything was written
ExecEditFail(e) ==
  /\ e.phase = "edit"
  /\ e.act.type \in {"add_comment", "add_import", "fix_formatting"}
  /\ Throw(e, "Error", << >>)

\* the default of the switch: throw new FatalError("Unsupported action type")
ExecUnsupported(e) ==
  /\ e.phase = "edit"
  /\ e.act.type \notin SupportedTypes
  /\ Throw(e, "FatalError", << >>)

\* validateSyntax found the file valid
ExecValidateOk(e) ==
  /\ e.phase = "validate"
  /\ IF config.enableGitIntegration
       THEN Advance(e, "commit") /\ UNCHANGED << files, backups >>
       ELSE Return(e)

\* validateSyntax found the file invalid: VALIDATION recorded, ValidationError thrown
ExecValidateInvalid(e) ==
  /\ e.phase = "validate"
  /\ Throw(e, "ValidationError",
           << ErrorContext("VALIDATION", "post_action_validation", -1, -1, -1, "") >>)

ExecCommitOk(e) ==
  /\ e.phase = "commit"
  /\ Return(e)

\* commitAction: commitChanges threw, rethrown as GitError
ExecCommitFail(e) ==
  /\ e.phase = "commit"
  /\ Throw(e, "GitError", << >>)

\* withTimeout rejects the awaited executeAction after 30 s; the call itself
\* goes on.  processTodo's catch records TIMEOUT and rethrows; the loop's
\* catch sees no FatalError and continues with the next TODO.
ExecTimeout(e) ==
  /\ pc = "exec"
  /\ e.fg
  /\ Cardinality({o \in execs : ~o.fg}) < MaxOrphans
  /\ execs' = (execs \ {e}) \cup {[e EXCEPT !.fg = FALSE]}
  /\ recordError(<< ofError(ErrorContext(todoErrorType(TRUE), "todo_processing",
                                         -1, -1, -1, ""),
                            rejection(TRUE)) >>)
  /\ pc' = "todos"
  /\ UNCHANGED << call, config, session, stored, snap, actionsExecuted,
                  consecutiveFailures, actionTaken, todoIndex, todo, cur,
                  files, backups, timer, activeEntry, stops >>
  /\ NoneThrown

(* ---------------------- stopSession, timeoutSession -------------------- *)
\* the session timer fires: timeoutSession records TIMEOUT and calls stopSession
TimerFire ==
  /\ timer = "armed"
  /\ timer' = "fired"
  /\ recordError(<< ErrorContext("TIMEOUT", "session_timeout", -1, -1, -1, "") >>)
  /\ stops' = [stops EXCEPT !["timer"].pc = "called"]
  /\ UNCHANGED << call, config, pc, session, stored, snap, actionsExecuted,
                  consecutiveFailures, actionTaken, todoIndex, todo, cur,
                  execs, files, backups, activeEntry >>
  /\ NoneThrown

\* stopSession: const session = await getSession(sessionId)
StopRead(c) ==
  /\ \/ c = "external" /\ stops[c].pc = "idle" /\ stored.status # "none"
     \/ c = "timer" /\ stops[c].pc = "called"
  /\ stops' = [stops EXCEPT ![c] = [pc |-> "read", snap |-> stored, cancelled |-> FALSE]]
  /\ UNCHANGED << call, config, pc, session, stored, snap, actionsExecuted,
                  consecutiveFailures, actionTaken, todoIndex, todo, cur,
                  execs, files, backups, timer, activeEntry >>
  /\ Quiet
  /\ NoneThrown

\* stopSession: an active session is written back as cancelled
cancelSession(s) == IF s.status = "active" THEN [s EXCEPT !.status = "cancelled"] ELSE s

\* stopSession after its read: the write when the session it read was
\* active, then the timer is cleared and true returned
StopWrite(c) ==
  /\ stops[c].pc = "read"
  /\ stored' = IF stops[c].snap.status = "active" THEN cancelSession(stops[c].snap)
               ELSE stored
  /\ ClearTimer
  /\ stops' = [stops EXCEPT ![c] = [pc |-> "done", snap |-> NoSession,
                                    cancelled |-> stops[c].snap.status = "active"]]
  /\ UNCHANGED << call, config, pc, session, snap, actionsExecuted,
                  consecutiveFailures, actionTaken, todoIndex, todo, cur,
                  execs, files, backups >>
  /\ Quiet
  /\ NoneThrown

(* --------------------------- specifications --------------------------- *)
\* the steps of runAutonomousLoop, processTodo and the awaited executeAction
NextRun ==
  \/ RecordingOk
  \/ RecordingFail
  \/ LoopHead
  \/ ListEmpty
  \/ ListSome
  \/ \E timedOut \in BOOLEAN : ListFail(timedOut)
  \/ FailWrite
  \/ FailClear
  \/ \E t \in TodoItems : ForNext(t)
  \/ ForEnd
  \/ Refresh
  \/ CompleteRead
  \/ CompleteWrite
  \/ FinalRead
  \/ \E timedOut \in BOOLEAN : ContextFail(timedOut)
  \/ Gate
  \/ AddRead
  \/ AddWrite
  \/ \E e \in execs : ExecBackupOk(e)
  \/ \E e \in execs : ExecBackupFail(e)
  \/ \E e \in execs : ExecEditWrite(e)
  \/ \E e \in execs : ExecEditNoWrite(e)
  \/ \E e \in execs : ExecEditFail(e)
  \/ \E e \in execs : ExecUnsupported(e)
  \/ \E e \in execs : ExecValidateOk(e)
  \/ \E e \in execs : ExecValidateInvalid(e)
  \/ \E e \in execs : ExecCommitOk(e)
  \/ \E e \in execs : ExecCommitFail(e)

\* what runs between the loop's awaits: an operation timeout, the session
\* timer, stopSession
NextEnv ==
  \/ \E e \in execs : ExecTimeout(e)
  \/ TimerFire
  \/ \E c \in StopCallers : StopRead(c)
  \/ \E c \in StopCallers : StopWrite(c)

Next == StartSession \/ StartFail \/ NextRun \/ NextEnv

\* a session with every interleaving of stop requests, the session timer
\* and operation timeouts
Spec == Init /\ [][Next]_vars

NextSeq == StartSession \/ StartFail \/ NextRun

\* a session that no stop request, session timeout or operation timeout
\* interrupts, with larger action caps
SpecSeq == InitSeq /\ [][NextSeq]_vars

(* ------------------------------ properties ---------------------------- *)
\* C1: at every point of a session the loop's count of executed actions is
\* at most config.maxActionsPerSession.
C1_ActionsWithinCap == actionsExecuted <= config.maxActionsPerSession

\* a cap above 1 is reached inside a scan that may hold further TODOs
C1_CapReachedMidScan ==
  /\ pc = "todos"
  /\ todoIndex < MaxTodos
  /\ config.maxActionsPerSession > 1
  /\ actionsExecuted = config.maxActionsPerSession

\* C2 (as stated): whenever executeAction throws with backups enabled, the
\* target file then holds the content it had when that action began.
C2_RestoredOnThrow ==
  (thrown # NoThrow /\ config.enableBackups) => thrown.post = thrown.pre

\* C3 (as stated): a persisted status that is completed, failed or cancelled
\* never changes again.
C3_TerminalStatusKept ==
  [][stored.status \in {"completed", "failed", "cancelled"}
       => stored'.status = stored.status]_vars

\* C4 (as stated): once the loop has ended and every stopSession call has
\* returned, a session that a stopSession call cancelled is persisted as
\* cancelled.
C4_StoppedEndsCancelled ==
  ( /\ pc \in {"done", "failed"}
    /\ \A c \in StopCallers : stops[c].pc \in {"idle", "done"}
    /\ \E c \in StopCallers : stops[c].pc = "done" /\ stops[c].cancelled )
  => stored.status = "cancelled"

\* C5 (as stated): at most one executeAction call of the session is running
\* at any time.
C5_OneExecuting == Cardinality(execs) <= 1

\* C6 (as stated): every Action the session persists after its execution
\* ended has a terminal status, completed or failed.
C6_PersistedActionsTerminal ==
  \A i \in 1..Len(stored.actions) :
    stored.actions[i].status # "requires_approval"
      => stored.actions[i].status \in {"completed", "failed"}

\* C7 (as stated): in every persisted state metrics.totalActions is the
\* length of the actions list.
C7_TotalActionsIsLength == stored.totalActions = Len(stored.actions)

\* the step in which processTodo, having read the file context, analyses
\* the TODO and decides
GateStep ==
  /\ pc = "context"
  /\ pc' # "context"
  /\ ~(Len(recorded') = 1 /\ recorded'[1].operation = "todo_processing")

\* the TODO is skipped: no Action, no execution, no file or backup touched
Skipped ==
  /\ pc' = "todos"
  /\ cur' = NoAction
  /\ execs' = execs
  /\ files' = files
  /\ backups' = backups
  /\ stored' = stored

\* C8: the gate tests in this order: no match records PATTERN_MATCH; else a
\* best confidence below the safety threshold records a SAFETY rejection
\* with the confidence and the threshold; else a pattern that is not enabled
\* records a SAFETY pattern_check error; each of the three skips the TODO
\* with no Action and no file change; only otherwise is an Action made.
C8_GateOrder ==
  [][GateStep =>
       LET matches == analyzePattern(todo.content)
           best == selectBestMatch(matches)
       IN
       IF Len(matches) = 0
         THEN /\ recorded' = << ErrorContext("PATTERN_MATCH", "pattern_matching",
                                             -1, -1, -1, "") >>
              /\ Skipped
       ELSE IF best.confidence < config.safetyThreshold
         THEN /\ recorded' = << ErrorContext("SAFETY", "safety_check", -1,
                                             best.confidence, config.safetyThreshold,
                                             best.id) >>
              /\ Skipped
       ELSE IF best.id \notin config.enabled
         THEN /\ recorded' = << ErrorContext("SAFETY", "pattern_check", -1, -1, -1,
                                             best.id) >>
              /\ Skipped
       ELSE /\ recorded' = << >>
            /\ \/ cur'.patternId = best.id
               \/ \E e \in execs' \ execs : e.act.patternId = best.id]_vars

\* a TODO whose best match is both below the threshold and not enabled was
\* rejected for its confidence
C8_BelowThresholdAndDisabled ==
  /\ Len(recorded) = 1
  /\ recorded[1].operation = "safety_check"
  /\ recorded[1].patternId \notin config.enabled

\* C9: a TODO that clears the gate is executed at once when its confidence is
\* at least the session's autoApproveThreshold; otherwise its Action is
\* marked requires_approval, nothing is executed or written, and the Action
\* goes to the session record.
C9_ImmediateOrApproval ==
  [][LET matches == analyzePattern(todo.content)
         best == selectBestMatch(matches)
     IN
     ( /\ GateStep
       /\ Len(matches) > 0
       /\ best.confidence >= config.safetyThreshold
       /\ best.id \in config.enabled )
     => IF best.confidence >= session.autoApproveThreshold
          THEN /\ pc' = "exec"
               /\ cur' = NoAction
               /\ \E e \in execs' \ execs :
                     /\ e.fg
                     /\ e.act.patternId = best.id
                     /\ e.act.status = "executing"
                     /\ ~e.act.requiresApproval
          ELSE /\ pc' = "addRead"
               /\ cur'.status = "requires_approval"
               /\ cur'.patternId = best.id
               /\ cur'.requiresApproval
               /\ execs' = execs
               /\ files' = files]_vars

\* an Action whose confidence equals the autoApproveThreshold is executing
C9_ExecutingAtThreshold ==
  /\ pc = "exec"
  /\ \E e \in execs : e.fg /\ e.act.confidence = session.autoApproveThreshold

\* the step is the catch of a loop iteration
IterationFailed ==
  consecutiveFailures' # consecutiveFailures /\ consecutiveFailures' # 0

\* the step records the FATAL error of the exhausted retries
FatalRaised ==
  \E i \in 1..Len(recorded') :
    recorded'[i].errorType = "FATAL" /\ recorded'[i].operation = "max_retries_exceeded"

C11_FatalErrorEndsLoop ==
  (\E i \in 1..Len(recorded) :
      recorded[i].operation = "action_execution" /\ recorded[i].error = "FatalError")
  => pc \in {"failWrite", "failClear", "failed"}

\* C12: a step that ends the processing of one TODO, with or without a
\* failure, never leaves the for loop for a catch of the loop or the end of
\* the session: the persisted session and the consecutive-failure count are
\* untouched, a TODO that yields no Action leaves a record (a failed
\* execution or a timeout one of operation todo_processing), and the loop
\* stands at the head of the for loop for the next TODO.
C12_TodoFailureAbsorbed ==
  [][(pc \in {"context", "exec"} /\ pc' # pc) =>
       /\ pc' \in {"exec", "addRead", "todos"}
       /\ consecutiveFailures' = consecutiveFailures
       /\ stored' = stored
       /\ pc' = "todos" =>
            /\ Len(recorded') >= 1
            /\ recorded'[Len(recorded')].operation \in
                 {"todo_processing", "pattern_matching", "safety_check", "pattern_check"}
       /\ (pc = "exec" /\ pc' = "todos") =>
            /\ recorded'[Len(recorded')].operation = "todo_processing"
            /\ recorded'[Len(recorded')].errorType \in {"RECOVERABLE", "TIMEOUT"}]_vars

\* a TODO failed with an error that processTodo classifies FATAL, and the
\* active session stands at the head of the for loop with the scan not used up
C12_FailedTodoLoopGoesOn ==
  /\ pc = "todos"
  /\ todoIndex < MaxTodos
  /\ stored.status = "active"
  /\ Len(recorded) = 1
  /\ recorded[1].operation = "todo_processing"
  /\ recorded[1].errorType = "FATAL"

\* the loop has left its while loop on the way to completeSession
Completing == {"completeRead", "completeWrite", "finalRead", "done"}

\* C13: when the for loop ends an iteration in which no action was taken,
\* the loop leaves the while loop and calls completeSession; from there it
\* never scans again, completeSession persists the status completed, and
\* the session has that status when the loop returns.
C13_ZeroActionIterationEnds ==
  [][ /\ (pc = "todos" /\ pc' \notin {"todos", "context"} /\ ~actionTaken)
           => pc' = "completeRead"
      /\ pc \in Completing => pc' \in Completing
      /\ (pc = "completeWrite" /\ pc' # pc) => stored'.status = "completed"
      /\ pc' = "done" => stored'.status = "completed" ]_vars

\* a session ended completed by a second iteration that took no action
C13_EndedAfterIdleIteration ==
  /\ pc = "done"
  /\ stored.status = "completed"
  /\ ~actionTaken
  /\ todoIndex >= 1
  /\ actionsExecuted >= 1

\* C14: when the first scan of a session returns no TODO (the loop returned
\* without any scan having failed or having returned a TODO), startSession
\* returns success with actionsExecuted = 0, a session whose status is
\* completed, persisted as such, and the message "No actionable TODOs found".
C14_EmptyFirstScan ==
  (pc = "done" /\ todoIndex = 0 /\ consecutiveFailures = 0) =>
     /\ startSessionResult.success
     /\ startSessionResult.actionsExecuted = 0
     /\ startSessionResult.status = "completed"
     /\ startSessionResult.message = "No actionable TODOs found"
     /\ stored.status = "completed"
     /\ stored.actions = << >>

\* startSession has returned after a first scan that found nothing
C14_ReturnedAfterEmptyScan ==
  /\ pc = "done"
  /\ todoIndex = 0
  /\ consecutiveFailures = 0
  /\ session.status = "completed"

\* C15 (as stated): whenever startSession has returned, the session timer is
\* no longer armed and activeSessions holds no entry for the session.
C15_TimerClearedOnReturn ==
  Returned => (timer # "armed" /\ ~activeEntry)

\* C16: startSession reports every failure in the result it returns and
\* never throws.  A failure of session creation, of startRecording or of the
\* loop (the FatalError of its outer catch) ends in the catch of startSession:
\* the step that leaves the failing point records a FATAL session_startup
\* context and returns success = FALSE with actionsExecuted = 0; the loop, once
\* its outer catch runs, goes nowhere else, and a returned startSession
\* reports success only when the loop returned.
C16_FailuresReported ==
  [][ /\ (pc \in {"idle", "recording", "failClear"} /\ pc' # pc
            /\ pc' \notin {"recording", "loop"})
        => /\ pc' \in {"failed", "startFailed"}
           /\ ~startSessionResult'.success
           /\ startSessionResult'.actionsExecuted = 0
           /\ Len(recorded') = 1
           /\ recorded'[1].operation = "session_startup"
           /\ recorded'[1].errorType = "FATAL"
      /\ (pc = "failWrite" /\ pc' # pc) => pc' = "failClear"
      /\ pc \in {"failed", "startFailed"} => pc' = pc
      /\ (Returned' /\ startSessionResult'.success) => pc' = "done"
    ]_vars

\* C16 witness: the loop failed, its FatalError was caught by startSession,
\* recorded, and reported in the returned result
C16_LoopFailureReported ==
  /\ pc = "failed"
  /\ stored.status = "failed"
  /\ ~startSessionResult.success
  /\ Len(recorded) = 1
  /\ recorded[1].operation = "session_startup"

\* C17 (as stated): every error context recorded for a deadline rejection (a
\* TimeoutError of withTimeout) has the error type TIMEOUT.
C17_TimeoutRecordedAsTimeout ==
  \A i \in 1..Len(recorded) :
    recorded[i].error = "TimeoutError" => recorded[i].errorType = "TIMEOUT"

\* a step in which validateSyntax reported the edited file invalid
ValidationFailed == \E i \in 1..Len(recorded') :
                      recorded'[i].operation = "post_action_validation"

CommitFailed == \E i \in 1..Len(recorded') : recorded'[i].error = "GitError"

\* C19 (as stated): a commit failure is recorded and leaves the action
\* standing: the file keeps the content the action gave it and the action is
\* returned to the loop to be appended, not thrown as failed.
C19_CommitFailureKeepsChange ==
  [][ CommitFailed =>
        /\ files' = files
        /\ thrown' = NoThrow
        /\ pc' = "addRead"
    ]_vars

\* C20 (as stated): every Action created at the gate is appended to its
\* session's action list: an executeAction that ends, by return or by
\* throw, hands its action to addAction.
C20_EveryActionAppended ==
  [][ thrown' # NoThrow => (pc' = "addRead" /\ cur'.id = thrown'.id) ]_vars

\* C21 (as stated): no write of the session record removes or reorders an
\* action appended before it: the persisted action list only grows at its
\* end.
C21_AppendedActionsKept ==
  [][ \A i \in 1..Len(stored.actions) :
        /\ i <= Len(stored'.actions)
        /\ stored'.actions[i].id = stored.actions[i].id
    ]_vars

(* ------------------- SafePatternMatcher on its own -------------------- *)
\* the values every variable of the service keeps while a matcher, analyzer
\* or tool method is called on its own
ServiceIdle ==
  /\ pc = "idle"
  /\ session = NoSession
  /\ stored = NoSession
  /\ snap = NoSession
  /\ actionsExecuted = 0
  /\ consecutiveFailures = 0
  /\ actionTaken = FALSE
  /\ todoIndex = 0
  /\ todo = NoTodo
  /\ cur = NoAction
  /\ execs = {}
  /\ files = [f \in Files |-> IF f = "src/a.ts" THEN 1 ELSE 2]
  /\ backups = {}
  /\ recorded = << >>
  /\ timer = "unset"
  /\ activeEntry = FALSE
  /\ stops = [c \in StopCallers |-> NoStop]
  /\ thrown = NoThrow

serviceVars == << config, pc, session, stored, snap, actionsExecuted,
                  consecutiveFailures, actionTaken, todoIndex, todo, cur, execs,
                  files, backups, recorded, timer, activeEntry, stops, thrown >>

\* custom patterns a caller may pass to the constructor: one of low
\* confidence, one tying with the best built-in patterns, and one that
\* reuses the id of a built-in pattern
CustomPool ==
  { [id |-> "custom-low", confidence |-> 50, actionType |-> "add_comment"],
    [id |-> "custom-tie", confidence |-> 90, actionType |-> "add_comment"],
    [id |-> "add-comment", confidence |-> 95, actionType |-> "add_comment"] }

\* the customPatterns arguments: up to two custom patterns, in either order
CustomPatterns ==
  { << >> } \cup { << p >> : p \in CustomPool }
    \cup { << pq[1], pq[2] >> : pq \in {x \in CustomPool \X CustomPool : x[1] # x[2]} }

\* new SafePatternMatcher(customPatterns): this.patterns
SafePatternMatcher(customPatterns) == SAFE_PATTERNS \o customPatterns

\* TODO texts given to a matcher: the set of pattern ids whose regex matches
MatcherContents ==
  SUBSET {"add-comment", "rename-variable", "add-import", "custom-low", "custom-tie"}

\* SafePatternMatcher.analyzePattern over this.patterns
matcherAnalyzePattern(patterns, content) ==
  SelectSeq(patterns, LAMBDA p : p.id \in content)

\* the reduce with >= for >: the last of the tied matches wins
findBestMatchMutant(patterns, content) ==
  LET matches == matcherAnalyzePattern(patterns, content)
      best[i \in 1..Len(matches)] ==
        IF i = 1 THEN matches[1]
        ELSE IF matches[i].confidence >= best[i - 1].confidence
               THEN matches[i] ELSE best[i - 1]
  IN IF Len(matches) = 0 THEN NoMatch ELSE best[Len(matches)]

\* SafePatternMatcher.findBestMatch
findBestMatch(patterns, content) ==
  LET matches == matcherAnalyzePattern(patterns, content) IN
  IF Len(matches) = 0 THEN NoMatch ELSE reduceBest(matches, 2, matches[1])

\* analyzeSafetyError with the low-confidence cut taken at the threshold
analyzeSafetyErrorMutant(context) ==
  LET confidence == IF context.confidence = -1 THEN 0 ELSE context.confidence
      threshold == IF context.safetyThreshold \in {-1, 0} THEN 70
                   ELSE context.safetyThreshold
  IN IF confidence < threshold THEN "HIGH" ELSE "LOW"

\* ErrorContextService.analyzeSafetyError: the severity of a SAFETY error.
\* context.confidence || 0 and context.safetyThreshold || 0.7 stand for an
\* absent (-1) or zero field.
analyzeSafetyError(context) ==
  LET confidence == IF context.confidence = -1 THEN 0 ELSE context.confidence
      threshold == IF context.safetyThreshold \in {-1, 0} THEN 70
                   ELSE context.safetyThreshold
  IN IF confidence < 30 THEN "HIGH"
     ELSE IF confidence < threshold THEN "MEDIUM"
     ELSE "LOW"

\* the severity analyzeError gives the ErrorContext recordError stores, for
\* the two error types the gate records
analyzeError(context) ==
  IF context.errorType = "SAFETY" THEN analyzeSafetyError(context)
  ELSE "MEDIUM"

\* what processTodo records and returns once the matches of a TODO are
\* known: the decision of the gate and the ErrorContext stored for a
\* rejection, with the severity recordError computes for it
processTodoGate(matches) ==
  LET bestMatch == selectBestMatch(matches)
      decision == GateDecision(matches)
      rejected ==
        CASE decision = "no_match" -> << recordPatternMatchFailure >>
          [] decision = "below_threshold" ->
               << recordSafetyRejection(bestMatch.confidence, config.safetyThreshold,
                                        bestMatch.id) >>
          [] decision = "disabled" ->
               << ErrorContext("SAFETY", "pattern_check", -1, -1, -1, bestMatch.id) >>
          [] OTHER -> << >>
  IN [decision |-> decision,
      confidence |-> bestMatch.confidence,
      errors |-> [i \in 1..Len(rejected) |->
                    [context |-> rejected[i], severity |-> analyzeError(rejected[i])]]]

\* a matcher has been constructed with some custom patterns; the service
\* that would use it is configured and idle
InitMatcher ==
  /\ config \in Configs(1)
  /\ ServiceIdle
  /\ \E customPatterns \in CustomPatterns :
       call = [fn |-> "constructor", args |-> customPatterns,
               result |-> SafePatternMatcher(customPatterns)]

\* matcher.analyzePattern({ todoContent })
CallAnalyzePattern(patterns, content) ==
  /\ call.fn = "constructor"
  /\ patterns = call.result
  /\ call' = [fn |-> "analyzePattern", args |-> << patterns, content >>,
              result |-> matcherAnalyzePattern(patterns, content)]
  /\ UNCHANGED serviceVars

\* matcher.findBestMatch({ todoContent })
CallFindBestMatch(patterns, content) ==
  /\ call.fn = "constructor"
  /\ patterns = call.result
  /\ call' = [fn |-> "findBestMatch", args |-> << patterns, content >>,
              result |-> findBestMatch(patterns, content)]
  /\ UNCHANGED serviceVars

\* processTodo from the pattern analysis on, with this matcher as the
\* service's patternMatcher
CallProcessTodo(patterns, content) ==
  /\ call.fn = "constructor"
  /\ patterns = call.result
  /\ call' = [fn |-> "processTodo", args |-> << patterns, content >>,
              result |-> processTodoGate(matcherAnalyzePattern(patterns, content))]
  /\ UNCHANGED serviceVars

NextMatcher ==
  \/ \E content \in MatcherContents : CallAnalyzePattern(call.result, content)
  \/ \E content \in MatcherContents : CallFindBestMatch(call.result, content)
  \/ \E content \in MatcherContents : CallProcessTodo(call.result, content)

\* a SafePatternMatcher constructed with custom patterns and called once
SpecMatcher == InitMatcher /\ [][NextMatcher]_vars

\* C22: a TODO whose best match has confidence 0.5 under safetyThreshold 0.7
\* creates no Action, and the error recorded for it is of type SAFETY and
\* severity MEDIUM with confidence and safetyThreshold in its context.
C22_LowConfidenceRejected ==
  (/\ call.fn = "processTodo"
   /\ call.result.confidence = 50
   /\ config.safetyThreshold = 70)
  => /\ call.result.decision = "below_threshold"
     /\ Len(call.result.errors) = 1
     /\ call.result.errors[1].context.errorType = "SAFETY"
     /\ call.result.errors[1].severity = "MEDIUM"
     /\ call.result.errors[1].context.confidence = 50
     /\ call.result.errors[1].context.safetyThreshold = 70

\* C22 witness: processTodo has rejected a TODO of best confidence 0.5 under
\* threshold 0.7
C22_RejectedAtHalf ==
  /\ call.fn = "processTodo"
  /\ call.result.confidence = 50
  /\ config.safetyThreshold = 70
  /\ call.result.decision = "below_threshold"
  /\ call.result.errors[1].severity = "MEDIUM"

\* C23: findBestMatch returns null exactly when analyzePattern returns no
\* match; otherwise it returns one of the matches, none of the matches has a
\* higher confidence, and every match declared before it has a lower one.
C23_BestMatchIsFirstHighest ==
  call.fn = "findBestMatch" =>
    LET matches == matcherAnalyzePattern(call.args[1], call.args[2]) IN
    /\ (call.result = NoMatch) <=> (Len(matches) = 0)
    /\ Len(matches) > 0 =>
         \E i \in 1..Len(matches) :
           /\ call.result = matches[i]
           /\ \A j \in 1..Len(matches) : matches[j].confidence <= matches[i].confidence
           /\ \A j \in 1..(i - 1) : matches[j].confidence < matches[i].confidence

\* C23 witness: findBestMatch was given a text with three matches tied for
\* the highest confidence and returned the first declared
C23_TieGoesToFirstDeclared ==
  /\ call.fn = "findBestMatch"
  /\ call.args[2] = {"add-comment", "rename-variable", "add-import", "custom-tie"}
  /\ Len(call.args[1]) = Len(SAFE_PATTERNS) + 1
  /\ call.result.id = "add-comment"
  /\ call.result.confidence = 90

\* C24 (as stated): the pattern table of every SafePatternMatcher holds no
\* two patterns with the same id.
C24_PatternIdsDistinct ==
  call.fn = "constructor" =>
    \A i, j \in 1..Len(call.result) :
      call.result[i].id = call.result[j].id => i = j

(* ----------------------- UnusedVariableAnalyzer ----------------------- *)
\* most declaration nodes in an analyzed file
MaxNodes == 2

\* identifiers of the analyzed files, as their characters
Names == { << "x" >>, << "_", "x" >>, << "y" >> }

\* name.startsWith('_')
startsWithUnderscore(name) == Len(name) > 0 /\ name[1] = "_"

\* The ancestors of a declaration node below the SourceFile, outermost
\* first: none (top level), a named function, an anonymous arrow function,
\* or a method of a class.
AncestorChains ==
  { << >>,
    << [syntax |-> "FunctionDeclaration", name |-> << "f" >>] >>,
    << [syntax |-> "ArrowFunction", name |-> << >>] >>,
    << [syntax |-> "ClassDeclaration", name |-> << "C" >>],
       [syntax |-> "MethodDeclaration", name |-> << "m" >>] >> }

\* the declaration nodes findDeclaredVariables looks for
DeclarationNodes ==
  [ syntax : {"VariableDeclaration", "FunctionDeclaration", "ClassDeclaration", "Parameter"},
    name : Names,
    ancestors : AncestorChains ]

\* An analyzed file: its declaration nodes in source order and the
\* identifiers that occur outside declaration contexts.
SourceFiles ==
  [ nodes : UNION { [1..n -> DeclarationNodes] : n \in 1..MaxNodes },
    identifiers : SUBSET Names ]

\* UnusedVariableAnalyzer.getScopeName: 'global' followed by the names of
\* the enclosing named functions, classes and methods
getScopeName(node) ==
  << << "global" >> >> \o
    [i \in 1..Len(SelectSeq(node.ancestors, LAMBDA a : a.name # << >>)) |->
       SelectSeq(node.ancestors, LAMBDA a : a.name # << >>)[i].name]

\* the kind findDeclaredVariables gives a declaration node
kindOf(node) ==
  CASE node.syntax = "VariableDeclaration" -> "variable"
    [] node.syntax = "FunctionDeclaration" -> "function"
    [] node.syntax = "ClassDeclaration" -> "class"
    [] OTHER -> "parameter"

\* the entries findDeclaredVariables pushes for the node at position `line`:
\* one, or two for a parameter of an arrow function (pushed when the arrow
\* function is visited and again when the parameter is)
declaredFor(node, line) ==
  LET entry == [name |-> node.name, line |-> line, kind |-> kindOf(node),
                scope |-> getScopeName(node)]
  IN IF /\ node.syntax = "Parameter"
        /\ Len(node.ancestors) > 0
        /\ node.ancestors[Len(node.ancestors)].syntax = "ArrowFunction"
       THEN << entry, entry >>
       ELSE << entry >>

RECURSIVE declaredFrom(_, _)
declaredFrom(nodes, line) ==
  IF line > Len(nodes) THEN << >>
  ELSE declaredFor(nodes[line], line) \o declaredFrom(nodes, line + 1)

\* UnusedVariableAnalyzer.findDeclaredVariables
findDeclaredVariables(sourceFile) == declaredFrom(sourceFile.nodes, 1)

\* UnusedVariableAnalyzer.findUsedIdentifiers
findUsedIdentifiers(sourceFile) == sourceFile.identifiers

\* the filter without its test of the leading underscore
identifyUnusedVariablesMutant(declared, used) ==
  SelectSeq(declared, LAMBDA variable : variable.name \notin used)

\* UnusedVariableAnalyzer.identifyUnusedVariables
identifyUnusedVariables(declared, used) ==
  SelectSeq(declared, LAMBDA variable :
    IF startsWithUnderscore(variable.name) THEN FALSE
    ELSE variable.name \notin used)

\* the categorisation that looks at the kind only
categorizeUnusedVariablesMutant(unusedVariables) ==
  [safeToRemove |-> SelectSeq(unusedVariables, LAMBDA variable :
                      variable.kind = "variable"),
   requiresReview |-> SelectSeq(unusedVariables, LAMBDA variable :
                      ~(variable.kind = "variable"))]

\* UnusedVariableAnalyzer.categorizeUnusedVariables
categorizeUnusedVariables(unusedVariables) ==
  [safeToRemove |-> SelectSeq(unusedVariables, LAMBDA variable :
                      variable.kind = "variable" /\ variable.scope # << << "global" >> >>),
   requiresReview |-> SelectSeq(unusedVariables, LAMBDA variable :
                      ~(variable.kind = "variable" /\ variable.scope # << << "global" >> >>))]

\* UnusedVariableAnalyzer.analyzeFile
analyzeFile(sourceFile) ==
  LET declared == findDeclaredVariables(sourceFile)
      used == findUsedIdentifiers(sourceFile)
      unusedVariables == identifyUnusedVariables(declared, used)
      categories == categorizeUnusedVariables(unusedVariables)
  IN [unusedVariables |-> unusedVariables,
      totalVariables |-> Len(declared),
      safeToRemove |-> categories.safeToRemove,
      requiresReview |-> categories.requiresReview]

\* a file has been parsed and nothing analyzed yet
InitVariables ==
  /\ config \in Configs(1)
  /\ config.safetyThreshold = 70
  /\ ServiceIdle
  /\ \E sourceFile \in SourceFiles :
       call = [fn |-> "createSourceFile", args |-> sourceFile, result |-> << >>]

\* analyzer.analyzeFile(filePath, content)
CallAnalyzeFile ==
  /\ call.fn = "createSourceFile"
  /\ call' = [fn |-> "analyzeFile", args |-> call.args,
              result |-> analyzeFile(call.args)]
  /\ UNCHANGED serviceVars

NextVariables == CallAnalyzeFile

\* UnusedVariableAnalyzer applied to one file
SpecVariables == InitVariables /\ [][NextVariables]_vars

\* the entries of a sequence
Range(seq) == {seq[i] : i \in 1..Len(seq)}

\* C25: no binding whose name starts with an underscore is in
\* unusedVariables, safeToRemove or requiresReview, referenced or not.
C25_UnderscoreNeverReported ==
  call.fn = "analyzeFile" =>
    \A variable \in Range(call.result.unusedVariables)
                      \cup Range(call.result.safeToRemove)
                      \cup Range(call.result.requiresReview) :
      ~startsWithUnderscore(variable.name)

\* C25 witness: a file declaring an unreferenced local variable _x and an
\* unreferenced local variable x was analyzed; only x is reported
C25_UnreferencedUnderscoreKept ==
  /\ call.fn = "analyzeFile"
  /\ Len(call.args.nodes) = 2
  /\ call.args.nodes[1].name = << "_", "x" >>
  /\ call.args.nodes[1].syntax = "VariableDeclaration"
  /\ call.args.nodes[2].name = << "x" >>
  /\ call.args.identifiers = {}
  /\ call.result.totalVariables = 2
  /\ Len(call.result.unusedVariables) = 1

\* C26: safeToRemove holds only bindings of kind variable whose scope is not
\* global: none of its entries comes from a top-level declaration, a
\* parameter, a function or a class.
C26_SafeToRemoveIsLocalVariable ==
  call.fn = "analyzeFile" =>
    \A variable \in Range(call.result.safeToRemove) :
      /\ variable.kind = "variable"
      /\ variable.scope # << << "global" >> >>
      /\ call.args.nodes[variable.line].syntax = "VariableDeclaration"
      /\ call.args.nodes[variable.line].ancestors # << >>

\* C26 witness: of an unused top-level variable and an unused variable of
\* function f, only the second is safe to remove
C26_GlobalNeedsReview ==
  /\ call.fn = "analyzeFile"
  /\ Len(call.result.unusedVariables) = 2
  /\ Len(call.result.safeToRemove) = 1
  /\ Len(call.result.requiresReview) = 1
  /\ call.result.requiresReview[1].kind = "variable"
  /\ call.result.requiresReview[1].scope = << << "global" >> >>
  /\ call.result.safeToRemove[1].scope = << << "global" >>, << "f" >> >>

(* ------------------------ UnusedImportAnalyzer ------------------------ *)
\* most units (a line, or an import statement of two lines) in a file
MaxUnits == 2

\* identifiers of the analyzed files
Ids == {"a", "b", "c"}

\* an import binding: its kind, its local name, and the imported name when
\* the binding is `propertyName as name`
Binding(type, name, propertyName) ==
  [type |-> type, name |-> name, propertyName |-> propertyName]

\* the import clauses of the analyzed files, by their bindings: a
\* side-effect import, { a }, { a, b }, { a as b }, c, * as c, c with { a }
ImportClauses ==
  { << >>,
    << Binding("named", "a", "") >>,
    << Binding("named", "a", ""), Binding("named", "b", "") >>,
    << Binding("named", "b", "a") >>,
    << Binding("default", "c", "") >>,
    << Binding("namespace", "c", "") >>,
    << Binding("default", "c", ""), Binding("named", "a", "") >> }

\* What a line of text holds, left to right: code that references some
\* identifiers, an import statement written on one line, the first line of
\* an import statement of two lines, or the second line of one (which
\* carries the text of its bindings).
CodePiece(refs) == [kind |-> "code", refs |-> refs, bindings |-> << >>]
ImportPiece(bindings) == [kind |-> "import", refs |-> {}, bindings |-> bindings]
OpenPiece(bindings) == [kind |-> "open", refs |-> {}, bindings |-> bindings]
RestPiece(bindings) == [kind |-> "rest", refs |-> {}, bindings |-> bindings]

\* the units files are made of, each a sequence of lines: a blank line, a
\* line of code, an import on one line, an import on two lines, and code
\* followed by an import on the same line
Units ==
  { << << >> >> }
    \cup { << << CodePiece(refs) >> >> : refs \in (SUBSET Ids) \ {{}} }
    \cup { << << ImportPiece(bs) >> >> : bs \in ImportClauses }
    \cup { << << OpenPiece(bs) >>, << RestPiece(bs) >> >> : bs \in ImportClauses \ {<< >>} }
    \cup { << << CodePiece({id}), ImportPiece(bs) >> >> :
             id \in Ids, bs \in ImportClauses \ {<< >>} }

\* the contents of the analyzed files: content.split('\n')
Contents ==
  Units \cup { u \o v : u \in Units, v \in Units }

\* the ImportDeclaration nodes the parser finds, in source order, each with
\* the line of its start: a one-line import, or a first line followed by
\* its second line
importDeclarations(content) ==
  LET found(i) ==
        SelectSeq([k \in 1..Len(content[i]) |->
                     [line |-> i, piece |-> content[i][k],
                      whole |-> \/ content[i][k].kind = "import"
                                \/ /\ content[i][k].kind = "open"
                                   /\ k = Len(content[i])
                                   /\ i < Len(content)
                                   /\ Len(content[i + 1]) > 0
                                   /\ content[i + 1][1] = RestPiece(content[i][k].bindings)]],
                  LAMBDA d : d.whole)
      from[i \in 1..(Len(content) + 1)] ==
        IF i > Len(content) THEN << >> ELSE found(i) \o from[i + 1]
  IN from[1]

\* the names written in an import clause
namesOf(bindings) ==
  {bindings[k].name : k \in 1..Len(bindings)}
    \cup ({bindings[k].propertyName : k \in 1..Len(bindings)} \ {""})

\* the entries extractAllImports pushes for one declaration: a side-effect
\* entry for no clause, else one per binding, importName being
\* element.propertyName when the element has one and element.name otherwise
importsOf(declaration) ==
  LET bindings == declaration.piece.bindings IN
  IF Len(bindings) = 0
    THEN << [importName |-> "", line |-> declaration.line, type |-> "side-effect"] >>
    ELSE [k \in 1..Len(bindings) |->
            [importName |-> IF bindings[k].propertyName # ""
                              THEN bindings[k].propertyName ELSE bindings[k].name,
             line |-> declaration.line,
             type |-> bindings[k].type]]

RECURSIVE flatten(_)
flatten(seqs) == IF Len(seqs) = 0 THEN << >> ELSE Head(seqs) \o flatten(Tail(seqs))

\* UnusedImportAnalyzer.extractAllImports
extractAllImports(content) ==
  LET declarations == importDeclarations(content) IN
  flatten([d \in 1..Len(declarations) |-> importsOf(declarations[d])])

\* UnusedImportAnalyzer.extractUsedIdentifiers: the identifiers referenced
\* outside import declarations.  The second line of an import whose first
\* line is gone is no import declaration: its names parse as references.
extractUsedIdentifiers(content) ==
  UNION { UNION { IF content[i][k].kind = "code" THEN content[i][k].refs
                  ELSE IF /\ content[i][k].kind = "rest"
                          /\ ~(/\ i > 1
                               /\ Len(content[i - 1]) > 0
                               /\ content[i - 1][Len(content[i - 1])]
                                    = OpenPiece(content[i][k].bindings))
                         THEN namesOf(content[i][k].bindings)
                  ELSE {} : k \in 1..Len(content[i]) } : i \in 1..Len(content) }

\* UnusedImportAnalyzer.isImportUsed
isImportUsed(importInfo, usedIdentifiers) == importInfo.importName \in usedIdentifiers

\* UnusedImportAnalyzer.findUnusedImports
findUnusedImports(content) ==
  SelectSeq(extractAllImports(content), LAMBDA importInfo :
    /\ importInfo.type # "side-effect"
    /\ ~isImportUsed(importInfo, extractUsedIdentifiers(content)))

\* UnusedImportAnalyzer.removeImportsFromLine
removeImportsFromLine(line, unusedImports) == << >>

\* UnusedImportAnalyzer.removeUnusedImports: the lines on which an unused
\* import starts are emptied, and empty lines are not kept
removeUnusedImports(content, unusedImports) ==
  IF Len(unusedImports) = 0 THEN content
  ELSE LET importsByLine == {unusedImports[k].line : k \in 1..Len(unusedImports)}
           modified == [i \in 1..Len(content) |->
                          IF i \in importsByLine
                            THEN removeImportsFromLine(content[i], unusedImports)
                            ELSE content[i]]
       IN SelectSeq(modified, LAMBDA line : Len(line) > 0)

\* most calls of the removeUnusedImports tool on one file
MaxRemovals == 2

\* FileSystemTools.removeUnusedImports (dryRun false): the content the file
\* holds afterwards; nothing is written when no import is unused
toolRemoveUnusedImports(content) ==
  LET unusedImports == findUnusedImports(content) IN
  IF Len(unusedImports) = 0 THEN content
  ELSE removeUnusedImports(content, unusedImports)

\* a file has been read and parsed
InitImports ==
  /\ config \in Configs(1)
  /\ config.safetyThreshold = 70
  /\ ServiceIdle
  /\ \E content \in Contents :
       call = [fn |-> "readFile", args |-> content, result |-> << >>, removals |-> 0]

\* analyzer.findUnusedImports(sourceFile)
CallFindUnusedImports ==
  /\ call.fn = "readFile"
  /\ call' = [call EXCEPT !.fn = "findUnusedImports",
                          !.result = findUnusedImports(call.args)]
  /\ UNCHANGED serviceVars

\* fileSystemTools.removeUnusedImports({ filePath })
CallRemoveUnusedImports ==
  /\ call.fn = "readFile"
  /\ call.removals < MaxRemovals
  /\ call' = [call EXCEPT !.fn = "removeUnusedImports",
                          !.result = toolRemoveUnusedImports(call.args),
                          !.removals = @ + 1]
  /\ UNCHANGED serviceVars

\* the file the tool wrote is read and parsed again
ReadFileAgain ==
  /\ call.fn = "removeUnusedImports"
  /\ call' = [call EXCEPT !.fn = "readFile", !.args = call.result, !.result = << >>]
  /\ UNCHANGED serviceVars

NextImports == CallFindUnusedImports \/ CallRemoveUnusedImports \/ ReadFileAgain

\* UnusedImportAnalyzer and the removeUnusedImports tool applied to one file
SpecImports == InitImports /\ [][NextImports]_vars

\* C27 (as stated): once removeUnusedImports has run on a file,
\* findUnusedImports on the content it left returns an empty list and a
\* second run changes nothing.
C27_RemovalIdempotent ==
  /\ (call.fn = "findUnusedImports" /\ call.removals >= 1) => call.result = << >>
  /\ (call.fn = "removeUnusedImports" /\ call.removals >= 2) => call.result = call.args

\* C28 (as stated): of every import declaration with an unused binding the
\* whole statement is deleted: no line of it is left in the result.
C28_WholeStatementRemoved ==
  call.fn = "removeUnusedImports" =>
    \A u \in Range(findUnusedImports(call.args)) :
      \A d \in Range(importDeclarations(call.args)) :
        d.line = u.line =>
          \A i \in 1..Len(call.result) : \A k \in 1..Len(call.result[i]) :
            ~(/\ call.result[i][k].kind \in {"import", "open", "rest"}
              /\ call.result[i][k].bindings = d.piece.bindings)

\* C29 (as stated): a default, named or namespace binding is reported by
\* findUnusedImports exactly when its local name (the alias, if any) is not
\* among the identifiers referenced outside import declarations.
C29_UnusedIffLocalNameUnreferenced ==
  (call.fn = "findUnusedImports" /\ call.removals = 0) =>
    \A d \in Range(importDeclarations(call.args)) :
      \A k \in 1..Len(d.piece.bindings) :
        (importsOf(d)[k] \in Range(call.result))
          <=> (d.piece.bindings[k].name \notin extractUsedIdentifiers(call.args))

(* ------------------ FunctionImplementor, implementFunction ------------ *)
\* most parameters of a function stub
MaxParameters == 2

\* What inferFunctionPurpose looks for in the lower-cased name of a stub:
\* the prefix get or set, and the words of the four other categories.
NameTraits ==
  { traits \in SUBSET {"get", "set", "valid", "calculat", "format", "convert"} :
      ~({"get", "set"} \subseteq traits) }

\* the function stubs findFunctionStubs may return
FunctionStubs ==
  [ name : NameTraits,
    parameters : 0..MaxParameters,
    returnType : {"void", "boolean", "number", "string"} ]

\* the strategy argument of implementFunction; "" when it is not given
Strategies == {"", "conservative", "balanced", "creative"}

\* FunctionImplementor.inferFunctionPurpose
inferFunctionPurpose(stub) ==
  LET hasReturn == stub.returnType # "void"
      paramCount == stub.parameters
  IN IF "get" \in stub.name /\ hasReturn /\ paramCount <= 1 THEN "getter"
     ELSE IF "set" \in stub.name /\ ~hasReturn /\ paramCount = 1 THEN "setter"
     ELSE IF "valid" \in stub.name THEN "validator"
     ELSE IF "calculat" \in stub.name THEN "calculator"
     ELSE IF "format" \in stub.name THEN "formatter"
     ELSE IF "convert" \in stub.name THEN "converter"
     ELSE "generic"

\* the confidence of the suggestion the generator of a category returns, in
\* hundredths
suggestionConfidence(category, stub) ==
  LET noParam == stub.parameters = 0 IN
  CASE category = "getter" -> 80
    [] category = "setter" -> IF noParam THEN 30 ELSE 80
    [] category = "validator" -> IF noParam THEN 30 ELSE 70
    [] category = "calculator" -> 60
    [] category = "formatter" -> IF noParam THEN 30 ELSE 60
    [] category = "converter" -> IF noParam THEN 30 ELSE 60
    [] OTHER -> 40

\* suggestions.sort((a, b) => b.confidence - a.confidence)
RECURSIVE sortByConfidence(_)
sortByConfidence(suggestions) ==
  IF Len(suggestions) <= 1 THEN suggestions
  ELSE LET rest == sortByConfidence(Tail(suggestions))
           first == Head(suggestions)
           before == SelectSeq(rest, LAMBDA s : s.confidence >= first.confidence)
           after == SelectSeq(rest, LAMBDA s : s.confidence < first.confidence)
       IN before \o << first >> \o after

\* FunctionImplementor.generateImplementation
generateImplementation(stub) ==
  LET category == inferFunctionPurpose(stub) IN
  sortByConfidence(<< [reasoning |-> category,
                       confidence |-> suggestionConfidence(category, stub)] >>)

NoSuggestion == [reasoning |-> "", confidence |-> -1]

\* suggestions.find(s => s.confidence >= minimum) || none
find(suggestions, minimum, none) ==
  LET found == SelectSeq(suggestions, LAMBDA s : s.confidence >= minimum) IN
  IF Len(found) = 0 THEN none ELSE found[1]

\* the selection with > 0.7 for the conservative strategy
selectSuggestionMutant(strategy, suggestions) ==
  IF Len(suggestions) = 0 THEN [skipped |-> TRUE, selected |-> NoSuggestion]
  ELSE IF strategy = "conservative"
    THEN LET conservative == SelectSeq(suggestions, LAMBDA s : s.confidence > 70) IN
         IF Len(conservative) = 0 THEN [skipped |-> TRUE, selected |-> NoSuggestion]
         ELSE [skipped |-> FALSE, selected |-> conservative[1]]
  ELSE IF strategy = "creative"
    THEN [skipped |-> FALSE,
          selected |-> find(suggestions, 40, suggestions[1])]
  ELSE [skipped |-> FALSE, selected |-> suggestions[1]]

\* implementFunction's choice among the suggestions for one stub, by
\* strategy: skipped or the selected suggestion
selectSuggestion(strategy, suggestions) ==
  IF Len(suggestions) = 0 THEN [skipped |-> TRUE, selected |-> NoSuggestion]
  ELSE IF strategy = "conservative"
    THEN LET conservative == SelectSeq(suggestions, LAMBDA s : s.confidence >= 70) IN
         IF Len(conservative) = 0 THEN [skipped |-> TRUE, selected |-> NoSuggestion]
         ELSE [skipped |-> FALSE, selected |-> conservative[1]]
  ELSE IF strategy = "creative"
    THEN [skipped |-> FALSE,
          selected |-> find(suggestions, 40, suggestions[1])]
  ELSE [skipped |-> FALSE, selected |-> suggestions[1]]

\* const { strategy = 'balanced' } = args
strategyOf(given) == IF given = "" THEN "balanced" ELSE given

\* a file with one function stub has been read; implementFunction is about
\* to be called with some strategy argument
InitImplement ==
  /\ config \in Configs(1)
  /\ config.safetyThreshold = 70
  /\ ServiceIdle
  /\ \E stub \in FunctionStubs, given \in Strategies :
       call = [fn |-> "findFunctionStubs", args |-> [stub |-> stub, strategy |-> given],
               result |-> << >>]

\* fileSystemTools.implementFunction({ filePath, strategy }) for the stub
CallImplementFunction ==
  /\ call.fn = "findFunctionStubs"
  /\ call' = [call EXCEPT !.fn = "implementFunction",
                !.result = selectSuggestion(strategyOf(call.args.strategy),
                                            generateImplementation(call.args.stub))]
  /\ UNCHANGED serviceVars

NextImplement == CallImplementFunction

\* implementFunction applied to one stub
SpecImplement == InitImplement /\ [][NextImplement]_vars

\* C30: conservative selects the top suggestion among those of confidence
\* >= 0.7 and skips the function when there is none; balanced, also when no
\* strategy is given, selects the suggestion of highest confidence;
\* creative selects the first suggestion of confidence >= 0.4 and, failing
\* that, the top suggestion whatever its confidence.
C30_SelectionByStrategy ==
  call.fn = "implementFunction" =>
    LET suggestions == generateImplementation(call.args.stub)
        given == call.args.strategy
        high == {i \in 1..Len(suggestions) : suggestions[i].confidence >= 70}
        fair == {i \in 1..Len(suggestions) : suggestions[i].confidence >= 40}
        first(S) == CHOOSE i \in S : \A j \in S : i <= j
    IN
    /\ given = "conservative" =>
         IF high = {} THEN call.result.skipped
         ELSE /\ ~call.result.skipped
              /\ call.result.selected = suggestions[first(high)]
    /\ given \in {"", "balanced"} =>
         /\ ~call.result.skipped
         /\ call.result.selected \in Range(suggestions)
         /\ \A s \in Range(suggestions) : s.confidence <= call.result.selected.confidence
    /\ given = "creative" =>
         /\ ~call.result.skipped
         /\ call.result.selected =
              IF fair = {} THEN suggestions[1] ELSE suggestions[first(fair)]

\* C30 witness: under the conservative strategy a stub whose only
\* suggestion has confidence 0.6 was skipped
C30_ConservativeSkips ==
  /\ call.fn = "implementFunction"
  /\ call.args.strategy = "conservative"
  /\ inferFunctionPurpose(call.args.stub) = "calculator"
  /\ call.result.skipped

(* ------------------- the approval threshold of a session -------------- *)
\* every Action object the session record, the loop or an executeAction call
\* holds
HeldActions ==
  Range(stored.actions) \cup Range(session.actions) \cup Range(snap.actions)
    \cup {e.act : e \in execs} \cup ({cur} \ {NoAction})

C33_RestoresOwnBackupOnly ==
  [][ (thrown' # NoThrow /\ config.enableBackups) =>
        /\ \A b \in backups \ backups' : b.content = thrown'.pre
        /\ thrown'.post \in {files[thrown'.filePath], thrown'.pre} ]_vars

(* ------------------------ termination of the loop --------------------- *)
\* SpecSeq in which a pending step is eventually taken: every awaited call
\* of the loop returns or fails, none hangs for ever
SpecSeqFair == SpecSeq /\ WF_vars(NextSeq)

\* C32: with no session timer firing and no stopSession call, every run of
\* startSession and its autonomous loop returns after finitely many
\* iterations, whatever the collaborators return or throw.
C32_LoopTerminates == <>Returned

\* C32 witness: the loop has returned after an iteration that went through
\* a whole scan (skipped or failed TODOs alike) without taking an action
C32_ReturnedAfterFailedScan ==
  /\ pc = "done"
  /\ actionsExecuted = 0
  /\ todoIndex = MaxTodos
  /\ ~actionTaken

(* ---------------------------- ReplayService --------------------------- *)
\* largest options.maxStepsToKeep a ReplayService is constructed with
MaxStepsToKeep == 2

\* most recordStep calls made on one replay session
MaxRecorded == 4

\* no replay session: activeReplays has no entry, or no replay file exists
NoReplay == [steps |-> << >>, totalSteps |-> -1, status |-> "none"]

\* the Actions handed to recordStep: the n-th has id n; its status is the
\* one it had when recorded
ReplayActions == [id : 1..MaxRecorded, status : {"completed", "failed"}]

\* recordStep with the trim one step early
recordStepMutant(replaySession, action, maxStepsToKeep) ==
  LET step == [stepNumber |-> Len(replaySession.steps) + 1, action |-> action]
      pushed == Append(replaySession.steps, step)
  IN [replaySession EXCEPT
        !.steps = IF Len(pushed) >= maxStepsToKeep THEN Tail(pushed) ELSE pushed,
        !.totalSteps = @ + 1]

\* recordStep on the active session, up to its save: the step is numbered
\* steps.length + 1 and pushed, totalSteps is incremented, and the oldest
\* step is shifted out when the list has grown beyond maxStepsToKeep
recordStep(replaySession, action, maxStepsToKeep) ==
  LET step == [stepNumber |-> Len(replaySession.steps) + 1, action |-> action]
      pushed == Append(replaySession.steps, step)
  IN [replaySession EXCEPT
        !.steps = IF Len(pushed) > maxStepsToKeep THEN Tail(pushed) ELSE pushed,
        !.totalSteps = @ + 1]

\* getReplaySession: the active session if there is one, else the saved file
\* (null, here NoReplay, when there is none)
getReplaySession(activeReplays, replayFile) ==
  IF activeReplays # NoReplay THEN activeReplays ELSE replayFile

\* getStepBreakdown: one entry per step of the session getReplaySession
\* returns, in order
getStepBreakdown(activeReplays, replayFile) ==
  LET replaySession == getReplaySession(activeReplays, replayFile) IN
  IF replaySession = NoReplay THEN << >>
  ELSE [i \in 1..Len(replaySession.steps) |->
          [stepNumber |-> replaySession.steps[i].stepNumber,
           actionId   |-> replaySession.steps[i].action.id,
           status     |-> replaySession.steps[i].action.status,
           success    |-> replaySession.steps[i].action.status = "completed"]]

\* steps.find(s => s.stepNumber === stepNumber): the first such step, the
\* empty sequence for undefined
findStep(steps, stepNumber) ==
  LET found == SelectSeq(steps, LAMBDA s : s.stepNumber = stepNumber) IN
  IF Len(found) = 0 THEN << >> ELSE << found[1] >>

\* debugStep: null (the empty sequence) without session or step, else the
\* step found
debugStep(activeReplays, replayFile, stepNumber) ==
  LET replaySession == getReplaySession(activeReplays, replayFile) IN
  IF replaySession = NoReplay THEN << >>
  ELSE findStep(replaySession.steps, stepNumber)

\* a ReplayService has been constructed with some maxStepsToKeep; nothing
\* is recorded and no replay file exists
InitReplay ==
  /\ config \in Configs(1)
  /\ config.safetyThreshold = 70
  /\ ServiceIdle
  /\ \E maxStepsToKeep \in 1..MaxStepsToKeep :
       call = [fn |-> "constructor", args |-> << >>, result |-> << >>,
               options |-> [maxStepsToKeep |-> maxStepsToKeep],
               activeReplays |-> NoReplay, replayFile |-> NoReplay,
               recorded |-> << >>, rejected |-> FALSE]

\* startRecording(sessionId): the new session is put into activeReplays,
\* then saved; the call rejects when the save does
CallStartRecording(saved) ==
  /\ call.fn = "constructor"
  /\ LET replaySession == [steps |-> << >>, totalSteps |-> 0, status |-> "recording"] IN
     call' = [call EXCEPT !.fn = "startRecording", !.args = << >>, !.result = << >>,
                !.activeReplays = replaySession,
                !.replayFile = IF saved THEN replaySession ELSE @,
                !.rejected = ~saved]
  /\ UNCHANGED serviceVars

\* recordStep(action), awaited: the step is pushed and the session saved; a
\* failed save is logged and swallowed
CallRecordStep(action, saved) ==
  /\ call.fn \in {"startRecording", "recordStep"}
  /\ call.activeReplays # NoReplay
  /\ Len(call.recorded) < MaxRecorded
  /\ action.id = Len(call.recorded) + 1
  /\ LET replaySession == recordStep(call.activeReplays, action,
                                     call.options.maxStepsToKeep) IN
     call' = [call EXCEPT !.fn = "recordStep", !.args = action, !.result = << >>,
                !.activeReplays = replaySession,
                !.replayFile = IF saved THEN replaySession ELSE @,
                !.recorded = Append(@, action),
                !.rejected = FALSE]
  /\ UNCHANGED serviceVars

\* stopRecording(sessionId): status completed, save, then the entry of
\* activeReplays is deleted; when the save rejects the entry stays
CallStopRecording(saved) ==
  /\ call.fn \in {"startRecording", "recordStep"}
  /\ call.activeReplays # NoReplay
  /\ LET replaySession == [call.activeReplays EXCEPT !.status = "completed"] IN
     call' = [call EXCEPT !.fn = "stopRecording", !.args = << >>, !.result = << >>,
                !.activeReplays = IF saved THEN NoReplay ELSE replaySession,
                !.replayFile = IF saved THEN replaySession ELSE @,
                !.rejected = ~saved]
  /\ UNCHANGED serviceVars

\* getReplaySession(sessionId)
CallGetReplaySession ==
  /\ call.fn \in {"startRecording", "recordStep", "stopRecording"}
  /\ call' = [call EXCEPT !.fn = "getReplaySession", !.args = call.fn,
                !.result = getReplaySession(call.activeReplays, call.replayFile)]
  /\ UNCHANGED serviceVars

\* getStepBreakdown(sessionId)
CallGetStepBreakdown ==
  /\ call.fn \in {"startRecording", "recordStep", "stopRecording"}
  /\ call' = [call EXCEPT !.fn = "getStepBreakdown", !.args = call.fn,
                !.result = getStepBreakdown(call.activeReplays, call.replayFile)]
  /\ UNCHANGED serviceVars

\* debugStep(sessionId, stepNumber)
CallDebugStep(stepNumber) ==
  /\ call.fn \in {"startRecording", "recordStep", "stopRecording"}
  /\ call' = [call EXCEPT !.fn = "debugStep", !.args = stepNumber,
                !.result = debugStep(call.activeReplays, call.replayFile, stepNumber)]
  /\ UNCHANGED serviceVars

NextReplay ==
  \/ \E saved \in BOOLEAN : CallStartRecording(saved)
  \/ \E action \in ReplayActions, saved \in BOOLEAN : CallRecordStep(action, saved)
  \/ \E saved \in BOOLEAN : CallStopRecording(saved)
  \/ CallGetReplaySession
  \/ CallGetStepBreakdown
  \/ \E stepNumber \in 1..(MaxRecorded + 1) : CallDebugStep(stepNumber)

\* one replay session of a ReplayService: recording, stopping, reading back
SpecReplay == InitReplay /\ [][NextReplay]_vars

\* C31: once stopRecording has been called, getReplaySession and
\* getStepBreakdown return one entry per action recorded since
\* startRecording, in recording order, when no more than maxStepsToKeep
\* were recorded.
C31_RecordedStepsReturned ==
  (/\ call.fn \in {"getReplaySession", "getStepBreakdown"}
   /\ call.args = "stopRecording"
   /\ Len(call.recorded) <= call.options.maxStepsToKeep)
  => /\ call.fn = "getReplaySession" =>
          /\ Len(call.result.steps) = Len(call.recorded)
          /\ \A i \in 1..Len(call.recorded) :
               call.result.steps[i].action = call.recorded[i]
     /\ call.fn = "getStepBreakdown" =>
          /\ Len(call.result) = Len(call.recorded)
          /\ \A i \in 1..Len(call.recorded) :
               /\ call.result[i].actionId = call.recorded[i].id
               /\ call.result[i].status = call.recorded[i].status

\* C31 witness: the breakdown read from the replay file after stopRecording
\* lists the two recorded actions, the second a failed one, of a session
\* keeping at most two steps
C31_BreakdownOfTwoSteps ==
  /\ call.fn = "getStepBreakdown"
  /\ call.args = "stopRecording"
  /\ ~call.rejected
  /\ call.activeReplays = NoReplay
  /\ call.options.maxStepsToKeep = 2
  /\ Len(call.recorded) = 2
  /\ Len(call.result) = 2
  /\ call.result[1].success
  /\ ~call.result[2].success

\* the replay sessions the service holds: in memory and on disk
ReplaySessions ==
  IF call.fn \in {"", "constructor"} \/ "activeReplays" \notin DOMAIN call THEN {}
  ELSE {call.activeReplays, call.replayFile}

\* C40 (as stated): the retained steps of a replay session have pairwise
\* distinct stepNumbers that increase with the position in the array, also
\* after more than maxStepsToKeep recordStep calls.
C40_StepNumbersIncrease ==
  \A replaySession \in ReplaySessions :
    \A i, j \in 1..Len(replaySession.steps) :
      i < j => replaySession.steps[i].stepNumber < replaySession.steps[j].stepNumber

(* --------- UnusedVariableAnalyzer.removeUnusedVariables --------------- *)
\* most tokens of a file given to removeUnusedVariables
MaxTokens == 4

\* The text of a file as a sequence of tokens, one offset each: other code,
\* a whole variable statement (`const x = 1, y = 2;`) with the names of its
\* declarators, the head of a variable statement whose initializer is an
\* arrow function with a block body (`const x = () => {`), and the end of
\* such a statement (`};`).
VariableTokens ==
  {[kind |-> "code", names |-> << >>], [kind |-> "close", names |-> << >>]}
    \cup [kind : {"statement"}, names : {<< "x" >>, << "y" >>, << "x", "y" >>}]
    \cup [kind : {"open"}, names : {<< "x" >>, << "y" >>}]

\* the number of arrow-function bodies open after the first i tokens
RECURSIVE depthAfter(_, _)
depthAfter(content, i) ==
  IF i = 0 THEN 0
  ELSE depthAfter(content, i - 1)
         + (IF content[i].kind = "open" THEN 1
            ELSE IF content[i].kind = "close" THEN -1 ELSE 0)

\* the offset just after the `};` that ends the statement opened by token i
endOfStatement(content, i) ==
  IF content[i].kind = "statement" THEN i
  ELSE CHOOSE j \in (i + 1)..Len(content) :
         /\ depthAfter(content, j) = depthAfter(content, i - 1)
         /\ \A k \in (i + 1)..(j - 1) :
              depthAfter(content, k) > depthAfter(content, i - 1)

\* ts.createSourceFile and the visit of removeUnusedVariables: the
\* VariableStatement nodes of the file in visiting order, each with
\* getFullStart(), getEnd(), the names of its declarations and the line of
\* its first token
variableStatements(content) ==
  LET at(i) == [start |-> i - 1, end |-> endOfStatement(content, i),
                names |-> content[i].names, line |-> i]
      RECURSIVE visit(_)
      visit(i) ==
        IF i > Len(content) THEN << >>
        ELSE IF content[i].kind \in {"statement", "open"}
          THEN << at(i) >> \o visit(i + 1)
          ELSE visit(i + 1)
  IN visit(1)

\* the block a token stands in: the line of the innermost statement head
\* around it, 0 at top level
blockOf(content, i) ==
  LET around == {j \in 1..(i - 1) :
                   content[j].kind = "open" /\ endOfStatement(content, j) > i}
  IN IF around = {} THEN 0 ELSE CHOOSE j \in around : \A k \in around : k <= j

\* the files: every `{` closed, bodies one deep, no name declared twice in
\* the same block
VariableContents ==
  { content \in UNION {[1..n -> VariableTokens] : n \in 1..MaxTokens} :
      /\ \A i \in 1..Len(content) : depthAfter(content, i) \in {0, 1}
      /\ depthAfter(content, Len(content)) = 0
      /\ \A i, j \in 1..Len(content) :
           (/\ i < j
            /\ content[i].kind \in {"statement", "open"}
            /\ content[j].kind \in {"statement", "open"}
            /\ blockOf(content, i) = blockOf(content, j))
           => Range(content[i].names) \cap Range(content[j].names) = {} }

\* the bindings a file declares in variable statements, as UnusedVariable
\* entries: name and line
declaredBindings(content) ==
  UNION { {[name |-> node.names[k], line |-> node.line] : k \in 1..Len(node.names)} :
            node \in Range(variableStatements(content)) }

\* content.slice(from, to)
slice(content, from, to) ==
  SubSeq(content, from + 1, IF to < Len(content) THEN to ELSE Len(content))

\* changes.sort((a, b) => b.start - a.start)
RECURSIVE sortByStartDescending(_)
sortByStartDescending(changes) ==
  IF Len(changes) = 0 THEN << >>
  ELSE LET m == CHOOSE i \in 1..Len(changes) :
                  \A j \in 1..Len(changes) : changes[j].start <= changes[i].start
       IN << changes[m] >>
            \o sortByStartDescending(SubSeq(changes, 1, m - 1)
                                       \o SubSeq(changes, m + 1, Len(changes)))

\* for (const change of changes) modifiedContent = slice(0, start) + slice(end)
RECURSIVE applyChanges(_, _)
applyChanges(modifiedContent, changes) ==
  IF Len(changes) = 0 THEN modifiedContent
  ELSE applyChanges(slice(modifiedContent, 0, changes[1].start)
                      \o slice(modifiedContent, changes[1].end, Len(modifiedContent)),
                    Tail(changes))

\* the statements removeUnusedVariables selects: those whose declarations
\* all have a name among the names of variablesToRemove
selectedStatements(content, variablesToRemove) ==
  LET toRemove == {v.name : v \in variablesToRemove} IN
  SelectSeq(variableStatements(content),
            LAMBDA node : \A k \in 1..Len(node.names) : node.names[k] \in toRemove)

\* UnusedVariableAnalyzer.removeUnusedVariables
removeUnusedVariables(content, variablesToRemove) ==
  IF variablesToRemove = {} THEN [content |-> content, removedCount |-> 0]
  ELSE LET changes == sortByStartDescending(selectedStatements(content, variablesToRemove))
       IN [content |-> applyChanges(content, changes), removedCount |-> Len(changes)]

\* a file has been read and some of the bindings it declares are about to
\* be passed to removeUnusedVariables
InitRemoval ==
  /\ config \in Configs(1)
  /\ config.safetyThreshold = 70
  /\ ServiceIdle
  /\ \E content \in VariableContents :
       \E variablesToRemove \in SUBSET declaredBindings(content) :
         /\ Cardinality(variablesToRemove) <= MaxRemovals
         /\ call = [fn |-> "readFile",
                    args |-> [content |-> content, variablesToRemove |-> variablesToRemove],
                    result |-> << >>]

\* analyzer.removeUnusedVariables(content, variablesToRemove)
CallRemoveUnusedVariables ==
  /\ call.fn = "readFile"
  /\ "variablesToRemove" \in DOMAIN call.args
  /\ call' = [call EXCEPT !.fn = "removeUnusedVariables",
                !.result = removeUnusedVariables(call.args.content,
                                                 call.args.variablesToRemove)]
  /\ UNCHANGED serviceVars

NextRemoval == CallRemoveUnusedVariables

\* removeUnusedVariables applied to one file and one removal set
SpecRemoval == InitRemoval /\ [][NextRemoval]_vars

\* C34 (as stated): a variable statement is removed only when every one of
\* its declarators is one of the bindings of the removal set; a statement
\* with a declarator that is not in the removal set is not among the
\* removed.
C34_RemovedOnlyIfAllSelected ==
  call.fn = "removeUnusedVariables" =>
    \A node \in Range(selectedStatements(call.args.content, call.args.variablesToRemove)) :
      call.args.variablesToRemove # {} =>
        \A k \in 1..Len(node.names) :
          [name |-> node.names[k], line |-> node.line] \in call.args.variablesToRemove

\* the tokens of the content that lie in none of the given statements
withoutStatements(content, nodes) ==
  LET kept(i) == \A node \in nodes : ~(node.start < i /\ i <= node.end)
      RECURSIVE keep(_)
      keep(i) == IF i > Len(content) THEN << >>
                 ELSE (IF kept(i) THEN << content[i] >> ELSE << >>) \o keep(i + 1)
  IN keep(1)

\* C35 (as stated): for every removal set, also one whose selected
\* statements are nested, the returned content is the original content with
\* exactly the text of the selected statements deleted.
C35_ExactlySelectedTextDeleted ==
  call.fn = "removeUnusedVariables" =>
    call.result.content =
      withoutStatements(call.args.content,
                        IF call.args.variablesToRemove = {} THEN {}
                        ELSE Range(selectedStatements(call.args.content,
                                                      call.args.variablesToRemove)))

\* the lines of the content that hold no text of an import declaration with
\* an unused binding, in order
linesOutsideRemoved(content, unusedImports) ==
  LET starts == {unusedImports[k].line : k \in 1..Len(unusedImports)}
      inRemoved(i) ==
        \/ i \in starts
        \/ /\ i - 1 \in starts
           /\ Len(content[i]) > 0
           /\ content[i][1].kind = "rest"
      RECURSIVE outside(_)
      outside(i) == IF i > Len(content) THEN << >>
                    ELSE (IF inRemoved(i) THEN << >> ELSE << content[i] >>)
                           \o outside(i + 1)
  IN outside(1)

\* the lines of `part` occur in `whole` in the same order
RECURSIVE occursInOrder(_, _)
occursInOrder(part, whole) ==
  IF Len(part) = 0 THEN TRUE
  ELSE IF Len(whole) = 0 THEN FALSE
  ELSE IF part[1] = whole[1] THEN occursInOrder(Tail(part), Tail(whole))
  ELSE occursInOrder(part, Tail(whole))

\* C37 (as stated): removeUnusedImports changes nothing but the imports it
\* removes: every line that is not part of a removed import, blank lines
\* included, is in the result unchanged and in the same order, and without
\* unused imports the content is returned as it is.
C37_OtherLinesKept ==
  (call.fn = "removeUnusedImports" /\ call.removals = 1) =>
    LET unusedImports == findUnusedImports(call.args) IN
    /\ occursInOrder(linesOutsideRemoved(call.args, unusedImports), call.result)
    /\ Len(unusedImports) = 0 => call.result = call.args

(* ------------- FunctionImplementor.analyzeFunctionNode ---------------- *)
\* most tokens between the braces of a function body
MaxBodyTokens == 4

\* What stands between the braces of a body, token by token: white space
\* (blanks or a line break), `return;`, some other statement text, the
\* braces of a nested block or object literal, a block comment without
\* TODO, a line comment `// TODO ...` with its line break, and the two
\* spellings of the not-implemented throw.
BodyTokens ==
  {" ", "return;", "code", "{", "}", "/* c */", "// TODO",
   "throw new Error(\"Not implemented\");", "throw new Error('Not implemented');"}

\* the braces opened and not closed in the first i tokens
RECURSIVE openBraces(_, _)
openBraces(text, i) ==
  IF i = 0 THEN 0
  ELSE openBraces(text, i - 1)
         + (IF text[i] = "{" THEN 1 ELSE IF text[i] = "}" THEN -1 ELSE 0)

\* body.getText() of the function bodies: an opening brace, tokens with
\* balanced braces, a closing brace
BodyTexts ==
  { << "{" >> \o inner \o << "}" >> :
      inner \in { t \in UNION {[1..n -> BodyTokens] : n \in 0..MaxBodyTokens} :
                    /\ \A i \in 1..Len(t) : openBraces(t, i) >= 0
                    /\ openBraces(t, Len(t)) = 0 } }

\* the function and method declarations with an identifier name: with a
\* body, or without one (an overload or an abstract method)
FunctionNodes ==
  [hasBody : {TRUE}, bodyText : BodyTexts]
    \cup {[hasBody |-> FALSE, bodyText |-> << >>]}

\* .replace(/\/\*[\s\S]*?\*\//g, '').replace(/\/\/.*$/gm, ''): a block
\* comment goes, of a line comment the line break stays
RECURSIVE removeComments(_)
removeComments(text) ==
  IF Len(text) = 0 THEN << >>
  ELSE (IF text[1] = "/* c */" THEN << >>
        ELSE IF text[1] = "// TODO" THEN << " " >>
        ELSE << text[1] >>) \o removeComments(Tail(text))

\* .replace(/\s+/g, ' '): every run of white space becomes one blank
RECURSIVE normalizeWhitespace(_)
normalizeWhitespace(text) ==
  IF Len(text) = 0 THEN << >>
  ELSE IF text[1] = " " /\ Len(text) > 1 /\ text[2] = " "
    THEN normalizeWhitespace(Tail(text))
    ELSE << text[1] >> \o normalizeWhitespace(Tail(text))

\* .trim()
RECURSIVE trim(_)
trim(text) ==
  IF Len(text) = 0 THEN text
  ELSE IF text[1] = " " THEN trim(Tail(text))
  ELSE IF text[Len(text)] = " " THEN trim(SubSeq(text, 1, Len(text) - 1))
  ELSE text

\* the body with comments removed, white space normalized, trimmed
cleanedBody(bodyText) == trim(normalizeWhitespace(removeComments(bodyText)))

emptyPatterns ==
  << << "{", "}" >>,
     << "{", " ", "}" >>,
     << "{", " ", "return;", " ", "}" >>,
     << "{", " ", "throw new Error(\"Not implemented\");", " ", "}" >>,
     << "{", " ", "throw new Error('Not implemented');", " ", "}" >> >>

\* cleaned.includes(pattern)
includes(cleaned, pattern) ==
  \E from \in 1..(Len(cleaned) - Len(pattern) + 1) :
    SubSeq(cleaned, from, from + Len(pattern) - 1) = pattern

\* FunctionImplementor.isFunctionBodyEmpty
isFunctionBodyEmpty(bodyText) ==
  LET cleaned == cleanedBody(bodyText) IN
  \E k \in 1..Len(emptyPatterns) :
    cleaned = emptyPatterns[k] \/ includes(cleaned, emptyPatterns[k])

\* FunctionImplementor.containsTodoComment
containsTodoComment(bodyText) ==
  \E i \in 1..Len(bodyText) : bodyText[i] = "// TODO"

\* FunctionImplementor.analyzeFunctionNode for a node with an identifier
\* name: whether a stub is returned
analyzeFunctionNode(node) ==
  IF ~node.hasBody THEN TRUE
  ELSE isFunctionBodyEmpty(node.bodyText) \/ containsTodoComment(node.bodyText)

\* a file with one function or method declaration has been parsed
InitStubs ==
  /\ config \in Configs(1)
  /\ config.safetyThreshold = 70
  /\ ServiceIdle
  /\ \E node \in FunctionNodes :
       call = [fn |-> "createSourceFile", args |-> node, result |-> << >>]

\* findFunctionStubs(sourceFile): the stubs of the file, one or none
CallFindFunctionStubs ==
  /\ call.fn = "createSourceFile"
  /\ "hasBody" \in DOMAIN call.args
  /\ call' = [call EXCEPT !.fn = "findFunctionStubs",
                !.result = IF analyzeFunctionNode(call.args)
                             THEN << call.args >> ELSE << >>]
  /\ UNCHANGED serviceVars

NextStubs == CallFindFunctionStubs

\* findFunctionStubs applied to a file with one function
SpecStubs == InitStubs /\ [][NextStubs]_vars

\* C38 (as stated): a function is reported as a stub exactly when it has no
\* body, its body stripped of comments and white space equals one of the
\* placeholder bodies, or its body contains a TODO/FIXME comment; a
\* function with any other body is never reported.
C38_StubIffPlaceholderOrTodo ==
  call.fn = "findFunctionStubs" =>
    LET node == call.args IN
    (Len(call.result) = 1)
      <=> \/ ~node.hasBody
          \/ \E k \in 1..Len(emptyPatterns) : cleanedBody(node.bodyText) = emptyPatterns[k]
          \/ \E i \in 1..Len(node.bodyText) : node.bodyText[i] = "// TODO"

(* ------------- implementFunction: replacing the stub bodies ----------- *)
\* most functions and other top-level units in a file given to
\* implementFunction
MaxFunctionUnits == 3

\* most lines between the braces of a generated implementation
MaxImplementationLines == 2

\* A line of the file: the unit (function) whose text it is, what it holds,
\* its numbers of `{` and `}`, and the stub whose generated implementation
\* it belongs to (0 for a line of the original file).
SourceLine(owner, text, opens, closes, implOf) ==
  [owner |-> owner, text |-> text, opens |-> opens, closes |-> closes, implOf |-> implOf]

\* the kinds of unit: a stub written on one line (`function a() {}`), a stub
\* on three lines (header, a TODO comment, the closing brace), an
\* implemented function on one line, and a line of other code
UnitKinds == {"stub1", "stub3", "real", "code"}

\* the lines of the unit of the given kind standing at position id
unitLines(kind, id) ==
  CASE kind = "stub1" -> << SourceLine(id, "stub", 1, 1, 0) >>
    [] kind = "stub3" -> << SourceLine(id, "header", 1, 0, 0),
                            SourceLine(id, "todo", 0, 0, 0),
                            SourceLine(id, "end", 0, 1, 0) >>
    [] kind = "real"  -> << SourceLine(id, "real", 1, 1, 0) >>
    [] OTHER          -> << SourceLine(id, "code", 0, 0, 0) >>

\* content.split('\n') of the file made of the units
RECURSIVE linesOf(_, _)
linesOf(units, id) ==
  IF id > Len(units) THEN << >>
  ELSE unitLines(units[id], id) \o linesOf(units, id + 1)

\* findFunctionStubs: the stubs in source order, each with position.line,
\* the line of the file as read on which it starts
RECURSIVE stubsFrom(_, _)
stubsFrom(units, id) ==
  IF id > Len(units) THEN << >>
  ELSE (IF units[id] \in {"stub1", "stub3"}
          THEN << [id |-> id, line |-> Len(linesOf(SubSeq(units, 1, id - 1), 1)) + 1] >>
          ELSE << >>) \o stubsFrom(units, id + 1)

\* functionHeader + ' ' + selectedSuggestion.implementation, split into
\* lines: the header found with the opening brace of the implementation,
\* the statements, the closing brace
newFunctionLines(headerLine, stub, statements) ==
  << SourceLine(headerLine.owner, "header", 1, 0, stub.id) >>
    \o [k \in 1..statements |-> SourceLine(0, "statement", 0, 0, stub.id)]
    \o << SourceLine(0, "end", 0, 1, stub.id) >>

\* the body of the for loop of implementFunction from `const lines =
\* newContent.split` on: the first line with a `{` at or after
\* stub.position.line, the line on which the braces are balanced again, and
\* the lines between replaced; newContent unchanged when none is found
replaceBody(newContent, stub, statements) ==
  LET lines == newContent
      withBrace == {i \in stub.line..Len(lines) : lines[i].opens > 0}
  IN IF withBrace = {} THEN newContent
     ELSE LET bodyStartIndex == CHOOSE i \in withBrace : \A j \in withBrace : i <= j
              RECURSIVE braceCount(_)
              braceCount(i) ==
                IF i < bodyStartIndex THEN 0
                ELSE braceCount(i - 1) + lines[i].opens - lines[i].closes
              balanced == {i \in bodyStartIndex..Len(lines) : braceCount(i) = 0}
          IN IF balanced = {} THEN newContent
             ELSE LET bodyEndIndex == CHOOSE i \in balanced : \A j \in balanced : i <= j
                  IN SubSeq(lines, 1, bodyStartIndex - 1)
                       \o newFunctionLines(lines[bodyStartIndex], stub, statements)
                       \o SubSeq(lines, bodyEndIndex + 1, Len(lines))

\* for (const stub of targetStubs) { ... }
RECURSIVE implementStubs(_, _, _)
implementStubs(newContent, targetStubs, statements) ==
  IF Len(targetStubs) = 0 THEN newContent
  ELSE implementStubs(replaceBody(newContent, targetStubs[1], statements),
                      Tail(targetStubs), statements)

\* a file of some units has been read; every generated implementation will
\* have the same number of statement lines
InitBodies ==
  /\ config \in Configs(1)
  /\ config.safetyThreshold = 70
  /\ ServiceIdle
  /\ \E n \in 1..MaxFunctionUnits, statements \in 1..MaxImplementationLines :
       \E units \in [1..n -> UnitKinds] :
         call = [fn |-> "readFile",
                 args |-> [units |-> units, statements |-> statements],
                 result |-> << >>]

\* fileSystemTools.implementFunction({ filePath }): all stubs of the file
\* are target stubs
CallImplementStubs ==
  /\ call.fn = "readFile"
  /\ "units" \in DOMAIN call.args
  /\ call' = [call EXCEPT !.fn = "implementFunction",
                !.result = implementStubs(linesOf(call.args.units, 1),
                                          stubsFrom(call.args.units, 1),
                                          call.args.statements)]
  /\ UNCHANGED serviceVars

NextBodies == CallImplementStubs

\* implementFunction applied to every stub of one file
SpecBodies == InitBodies /\ [][NextBodies]_vars

\* the lines of the units that are not stubs, in order
RECURSIVE otherLines(_, _)
otherLines(units, id) ==
  IF id > Len(units) THEN << >>
  ELSE (IF units[id] \in {"stub1", "stub3"} THEN << >> ELSE unitLines(units[id], id))
         \o otherLines(units, id + 1)

\* C39 (as stated): when one implementFunction call implements several
\* stubs of a file, every generated body stands under the header of the
\* stub it was generated for, every stub has received its body, and the
\* lines outside the stub bodies are unchanged and in order, whatever the
\* number of lines earlier replacements added or removed.
C39_BodiesReplaceOwnStubs ==
  call.fn = "implementFunction" =>
    /\ \A i \in 1..Len(call.result) :
         call.result[i].implOf # 0 /\ call.result[i].text = "header"
           => call.result[i].owner = call.result[i].implOf
    /\ \A stub \in Range(stubsFrom(call.args.units, 1)) :
         \E i \in 1..Len(call.result) :
           /\ call.result[i].text = "header"
           /\ call.result[i].owner = stub.id
           /\ call.result[i].implOf = stub.id
    /\ occursInOrder(otherLines(call.args.units, 1), call.result)

====
